---- MODULE Spec2Model ----
(***************************************************************************)
(* Model of the retis metadata filter compiler                             *)
(* (retis/src/core/filters/meta/filter.rs).                                *)
(*                                                                         *)
(* FilterMeta::from_string takes a filter string, walks the kernel type    *)
(* information (BTF) and emits a vector of MetaOp: one Target followed by  *)
(* the Loads.  The model runs from_string as a state machine: parse the    *)
(* filter, resolve the root type, walk one LHS node per step, emit the     *)
(* terminal Load, emit the Target.                                         *)
(*                                                                         *)
(* A string is a sequence of characters.  A character is a one-character   *)
(* string ("0", "x", "'", ".", ...) or an identifier atom ("sk_buff",      *)
(* "mark", ...), which stands for a maximal run of identifier characters:  *)
(* the code only ever compares such runs as a whole and never splits them. *)
(* A u64 is a sequence of eight bytes, least significant first, so that    *)
(* the 64-bit arithmetic of the code keeps its width.                      *)
(***************************************************************************)
EXTENDS Integers, Sequences, FiniteSets, TLC

\* ------------------------------------------------------------------------
\* Program constants (filter.rs:15-19, 67-72, 29-36)
\* ------------------------------------------------------------------------
META_OPS_MAX == 32
META_TARGET_MAX == 32
PTR_BIT == 64
SIGN_BIT == 128
MetaType_Char == 1
MetaType_Short == 2
MetaType_Int == 3
MetaType_Long == 4
\* size_of::<*const c_void>() on the 64-bit targets retis is built for
PtrSize == 8

\* ------------------------------------------------------------------------
\* Generic helpers
\* ------------------------------------------------------------------------
None == <<>>
Some(x) == <<x>>
\* let x = ...; (the value is bound once)
With(x, F(_)) == F(x)
\* Result: Ok(v) / Err(e), and the `?` operator
Ok(v) == [ok |-> TRUE, val |-> v, err |-> ""]
Err(e) == [ok |-> FALSE, val |-> <<>>, err |-> e]
Then(r, F(_)) == IF r.ok THEN F(r.val) ELSE r
\* for i in lo..=hi { acc = Step(acc, i) }: the range is halved so that the
\* evaluation nests by the logarithm of its length, and the accumulator of
\* the first half is a value before the second half starts
RECURSIVE Loop(_, _, _, _)
Loop(Step(_, _), lo, hi, acc) ==
    IF lo > hi THEN acc
    ELSE IF lo = hi THEN Step(acc, lo)
    ELSE CHOOSE r \in { Loop(Step, (lo + hi) \div 2 + 1, hi, a) :
                           a \in {Loop(Step, lo, (lo + hi) \div 2, acc)} } : TRUE
IsSome(o) == Len(o) = 1
Unwrap(o) == o[1]

Rep(c, n) == [i \in 1..n |-> c]

Reverse(s) == [i \in 1..Len(s) |-> s[Len(s) + 1 - i]]

\* str::starts_with / str::ends_with / str::strip_prefix
StartsWith(s, p) == Len(s) >= Len(p) /\ SubSeq(s, 1, Len(p)) = p
EndsWith(s, p) == Len(s) >= Len(p) /\ SubSeq(s, Len(s) - Len(p) + 1, Len(s)) = p

\* str::trim_start_matches: strips the prefix repeatedly
RECURSIVE TrimStartMatches(_, _)
TrimStartMatches(s, p) ==
    IF Len(p) > 0 /\ StartsWith(s, p)
    THEN TrimStartMatches(SubSeq(s, Len(p) + 1, Len(s)), p)
    ELSE s

\* str::split(sep) for a one-character separator: always at least one piece,
\* one more than the separators; piece k lies between separators k - 1 and k
NthSep(seps, k) == CHOOSE i \in seps : Cardinality({j \in seps : j < i}) = k - 1
SplitAt(s, seps) ==
    [k \in 1..(Cardinality(seps) + 1) |->
        SubSeq(s, IF k = 1 THEN 1 ELSE NthSep(seps, k - 1) + 1,
                  IF k = Cardinality(seps) + 1 THEN Len(s) ELSE NthSep(seps, k) - 1)]

Split(s, sep) == SplitAt(s, {i \in 1..Len(s) : s[i] = sep})

\* 8-bit bitwise operations (the type byte of a MetaLoad)
RECURSIVE BitAnd(_, _)
BitAnd(a, b) ==
    IF a = 0 \/ b = 0 THEN 0
    ELSE (a % 2) * (b % 2) + 2 * BitAnd(a \div 2, b \div 2)

RECURSIVE BitOr(_, _)
BitOr(a, b) ==
    IF a = 0 THEN b
    ELSE IF b = 0 THEN a
    ELSE (IF a % 2 = 1 \/ b % 2 = 1 THEN 1 ELSE 0) + 2 * BitOr(a \div 2, b \div 2)

\* ------------------------------------------------------------------------
\* u64 / i64 arithmetic on eight little-endian bytes
\* ------------------------------------------------------------------------
U64Zero == Rep(0, 8)
U64IsZero(v) == \A i \in 1..8 : v[i] = 0
\* !v
U64Not(v) == [i \in 1..8 |-> 255 - v[i]]

\* bytes i..8 of v * radix + carry, followed by the carry out of byte 8
MulAddByte(a, t) == [out |-> Append(a.out, t % 256), carry |-> t \div 256]
MulAddFrom(v, radix, carry, i) ==
    With(Loop(LAMBDA a, j : MulAddByte(a, v[j] * radix + a.carry), i, 8,
              [out |-> <<>>, carry |-> carry]),
         LAMBDA a : Append(a.out, a.carry))

\* wrapping negation (two's complement): the `as u64` of a negative i64
U64Neg(v) == SubSeq(MulAddFrom(U64Not(v), 1, 1, 1), 1, 8)

\* char::to_digit(radix)
DigitChars == <<"0", "1", "2", "3", "4", "5", "6", "7", "8", "9",
                "a", "b", "c", "d", "e", "f">>
DigitVal(c) ==
    IF \E i \in 1..16 : DigitChars[i] = c
    THEN (CHOOSE i \in 1..16 : DigitChars[i] = c) - 1
    ELSE 16
IsDigit(c, radix) == DigitVal(c) < radix

\* one iteration of the digit loop of from_str_radix: checked_mul then
\* checked_add; an error ends the loop
accum_digit(acc, c, radix) ==
    IF ~acc.ok THEN acc
    ELSE IF ~IsDigit(c, radix) THEN Err("InvalidDigit")
    ELSE With(MulAddFrom(acc.val, radix, DigitVal(c), 1), LAMBDA r :
            IF r[9] # 0 THEN Err("PosOverflow") ELSE Ok(SubSeq(r, 1, 8)))

\* the digit loop of from_str_radix
AccumDigits(s, radix) ==
    Loop(LAMBDA acc, i : accum_digit(acc, s[i], radix), 1, Len(s), Ok(U64Zero))

\* u64::from_str_radix / str::parse::<u64>: empty, a lone sign, an invalid
\* digit and overflow are errors; a leading '+' is accepted, '-' is not
U64FromStrRadix(s, radix) ==
    IF Len(s) = 0 THEN Err("Empty")
    ELSE IF Len(s) = 1 /\ s[1] \in {"+", "-"} THEN Err("InvalidDigit")
    ELSE AccumDigits(IF s[1] = "+" THEN Tail(s) ELSE s, radix)

\* the most negative i64 has magnitude 2^63
U64IsMinI64(v) == v[8] = 128 /\ \A i \in 1..7 : v[i] = 0
\* str::parse::<i64>() as u64
I64Parse(s) ==
    IF Len(s) = 0 THEN Err("Empty")
    ELSE IF Len(s) = 1 /\ s[1] \in {"+", "-"} THEN Err("InvalidDigit")
    ELSE Then(AccumDigits(IF s[1] \in {"+", "-"} THEN Tail(s) ELSE s, 10),
              LAMBDA m :
                IF s[1] = "-"
                THEN IF m[8] < 128 \/ U64IsMinI64(m) THEN Ok(U64Neg(m))
                     ELSE Err("NegOverflow")
                ELSE IF m[8] < 128 THEN Ok(m) ELSE Err("PosOverflow"))

\* ------------------------------------------------------------------------
\* The type database (BTF) the compiler queries.  Types are named by an id;
\* a member carries its name, its type, its bit offset and the bitfield
\* width the database reports (None when the record has no bitfield
\* information).  The sk_buff, net_device and nf_conn members used by the
\* unit tests keep the offsets the tests assert; the remaining members
\* exercise the other type shapes the compiler distinguishes.
\* ------------------------------------------------------------------------
IntT(size, signed) == [kind |-> "Int", size |-> size, signed |-> signed]
EnumT(kind, signed) == [kind |-> kind, signed |-> signed]
RefT(kind, to) == [kind |-> kind, type |-> to]
ArrayT(elem, len) == [kind |-> "Array", type |-> elem, len |-> len]
RecT(kind, members) == [kind |-> kind, members |-> members]
Mem(name, type, off, bfs) ==
    [name |-> name, type |-> type, bit_offset |-> off, bitfield_size |-> bfs]

\* u16::MAX and u8::MAX, the limits of the try_from conversions
U16Max == 65535
U8Max == 255
\* the first bit offset that no longer fits a u16
HighBits == U16Max + 1

BtfBaseTypes ==
    "void" :> [kind |-> "Void"]
 @@ "float" :> [kind |-> "Float"]
 @@ "char" :> IntT(1, TRUE)
 @@ "unsigned char" :> IntT(1, FALSE)
 @@ "short unsigned int" :> IntT(2, FALSE)
 @@ "int" :> IntT(4, TRUE)
 @@ "unsigned int" :> IntT(4, FALSE)
 @@ "long unsigned int" :> IntT(8, FALSE)
 @@ "long long int" :> IntT(8, TRUE)
 @@ "__int128" :> IntT(16, TRUE)

BtfTypedefs ==
    "__u8" :> RefT("Typedef", "unsigned char")
 @@ "__u16" :> RefT("Typedef", "short unsigned int")
 @@ "__u32" :> RefT("Typedef", "unsigned int")
 @@ "u32" :> RefT("Typedef", "__u32")
 @@ "s64" :> RefT("Typedef", "long long int")
 @@ "ktime_t" :> RefT("Typedef", "s64")
 @@ "uintptr_t" :> RefT("Typedef", "long unsigned int")
 @@ "const unsigned int" :> RefT("Const", "unsigned int")
 @@ "volatile long unsigned int" :> RefT("Volatile", "long unsigned int")

BtfEnums ==
    "enum netdev_reg_state" :> EnumT("Enum", FALSE)
 @@ "enum skb_drop_reason" :> EnumT("Enum", TRUE)
 @@ "enum netdev_stat" :> EnumT("Enum64", FALSE)

BtfRecordPtrs ==
    "struct sk_buff *" :> RefT("Ptr", "struct sk_buff")
 @@ "struct net_device *" :> RefT("Ptr", "struct net_device")
 @@ "const struct net_device *" :> RefT("Ptr", "const struct net_device")
 @@ "const struct net_device" :> RefT("Const", "struct net_device")
 @@ "struct net_device **" :> RefT("Ptr", "struct net_device *")
 @@ "struct Qdisc *" :> RefT("Ptr", "struct Qdisc")
 @@ "struct rb_node *" :> RefT("Ptr", "struct rb_node")
 @@ "netdev_ptr_t" :> RefT("Typedef", "struct net_device *")
 @@ "nf_conn_t" :> RefT("Typedef", "struct nf_conn")
 @@ "nf_conn_ptr_t" :> RefT("Typedef", "struct nf_conn *")
 @@ "struct nf_conn *" :> RefT("Ptr", "struct nf_conn")

BtfScalarPtrs ==
    "unsigned char *" :> RefT("Ptr", "unsigned char")
 @@ "char **" :> RefT("Ptr", "char *")
 @@ "char *" :> RefT("Ptr", "char")
 @@ "int *" :> RefT("Ptr", "int")
 @@ "void *" :> RefT("Ptr", "void")
 @@ "enum netdev_reg_state *" :> RefT("Ptr", "enum netdev_reg_state")

BtfArrays ==
    "char[48]" :> ArrayT("char", 48)
 @@ "char[16]" :> ArrayT("char", 16)
 @@ "char[0]" :> ArrayT("char", 0)
 @@ "char[300]" :> ArrayT("char", 300)
 @@ "unsigned char[32]" :> ArrayT("unsigned char", 32)
 @@ "unsigned int[4]" :> ArrayT("unsigned int", 4)
 @@ "enum netdev_reg_state[2]" :> ArrayT("enum netdev_reg_state", 2)
 @@ "enum netdev_stat[2]" :> ArrayT("enum netdev_stat", 2)
 @@ "char *[2]" :> ArrayT("char *", 2)
 @@ "char (*)[16]" :> RefT("Ptr", "char[16]")
 @@ "func sk_buff" :> [kind |-> "Func"]

BtfSkbRecords ==
    "struct sk_buff" :> RecT("Struct", <<
        Mem(<<>>, "union sk_buff::0", 0, Some(0)),
        Mem(<<"cb">>, "char[48]", 320, Some(0)),
        Mem(<<"_nfct">>, "long unsigned int", 832, Some(0)),
        Mem(<<"len">>, "unsigned int", 896, Some(0)),
        Mem(<<"mac_len">>, "__u16", 960, Some(0)),
        Mem(<<"cloned">>, "__u8", 1008, Some(1)),
        Mem(<<"pkt_type">>, "__u8", 1024, Some(3)),
        Mem(<<"ext_ref">>, "long unsigned int", 1032, Some(56)),
        Mem(<<>>, "union sk_buff::headers", 1088, Some(0)),
        Mem(<<"tstamp">>, "ktime_t", 1408, Some(0)),
        Mem(<<"head">>, "unsigned char *", 1536, Some(0)),
        Mem(<<"_dev">>, "netdev_ptr_t", 1600, Some(0)),
        Mem(<<"_ct">>, "uintptr_t", 1664, Some(0)),
        Mem(<<"drop_reason">>, "enum skb_drop_reason", 1728, Some(0)) >>)
 @@ "union sk_buff::0" :> RecT("Union", <<
        Mem(<<>>, "struct sk_buff::0::0", 0, None),
        Mem(<<"rbnode">>, "struct rb_node", 0, None) >>)
 @@ "struct sk_buff::0::0" :> RecT("Struct", <<
        Mem(<<"next">>, "struct sk_buff *", 0, None),
        Mem(<<"prev">>, "struct sk_buff *", 64, None),
        Mem(<<>>, "union sk_buff::0::0::0", 128, None) >>)
 @@ "union sk_buff::0::0::0" :> RecT("Union", <<
        Mem(<<"dev">>, "struct net_device *", 0, None),
        Mem(<<"dev_scratch">>, "long unsigned int", 0, None) >>)
 @@ "struct rb_node" :> RecT("Struct", <<
        Mem(<<"__rb_parent_color">>, "long unsigned int", 0, None),
        Mem(<<"rb_right">>, "struct rb_node *", 64, None) >>)
 @@ "union sk_buff::headers" :> RecT("Union", <<
        Mem(<<>>, "struct sk_buff::headers", 0, None),
        Mem(<<"headers">>, "struct sk_buff::headers", 0, None) >>)
 @@ "struct sk_buff::headers" :> RecT("Struct", <<
        Mem(<<"vlan_tci">>, "__u16", 192, None),
        Mem(<<"skb_iif">>, "int", 224, None),
        Mem(<<"mark">>, "__u32", 256, None) >>)

BtfDevRecords ==
    "struct net_device" :> RecT("Struct", <<
        Mem(<<"name">>, "char[16]", 0, Some(0)),
        Mem(<<"perm_addr">>, "unsigned char[32]", 128, Some(0)),
        Mem(<<"mtu">>, "unsigned int", 384, Some(0)),
        Mem(<<"min_mtu">>, "const unsigned int", 416, Some(0)),
        Mem(<<"pcpu_refcnt">>, "int *", 448, Some(0)),
        Mem(<<"reg_state">>, "enum netdev_reg_state", 512, Some(8)),
        Mem(<<"stat">>, "enum netdev_stat", 576, Some(0)),
        Mem(<<"ifalias">>, "char *", 640, Some(0)),
        Mem(<<"ml_priv">>, "void *", 704, Some(0)),
        Mem(<<"state">>, "volatile long unsigned int", 768, Some(0)),
        Mem(<<"states">>, "enum netdev_reg_state[2]", 832, Some(0)),
        Mem(<<"stats64">>, "enum netdev_stat[2]", 896, Some(0)),
        Mem(<<"gso_ipv4">>, "unsigned int[4]", 1024, Some(0)),
        Mem(<<"aliases">>, "char *[2]", 1152, Some(0)),
        Mem(<<"pname">>, "char (*)[16]", 1280, Some(0)),
        Mem(<<"palias">>, "char **", 1344, Some(0)),
        Mem(<<"pstate">>, "enum netdev_reg_state *", 1408, Some(0)),
        Mem(<<"wide">>, "__int128", 1536, Some(0)),
        Mem(<<"ratio">>, "float", 1664, Some(0)),
        Mem(<<"longname">>, "char[300]", 1728, Some(0)),
        Mem(<<"master">>, "const struct net_device *", 4160, Some(0)),
        Mem(<<"upper">>, "struct net_device **", 4224, Some(0)),
        Mem(<<"ifindex">>, "int", HighBits, Some(0)),
        Mem(<<"qdisc">>, "struct Qdisc *", HighBits + 64, Some(0)),
        Mem(<<"qdisc_sleeping">>, "struct Qdisc *", 8 * HighBits, Some(0)),
        Mem(<<"priv">>, "char[0]", 8 * HighBits + 64, Some(0)) >>)
 @@ "struct Qdisc" :> RecT("Struct", <<
        Mem(<<"flags">>, "unsigned int", 128, Some(0)),
        Mem(<<>>, "unsigned int", 160, Some(5)),
        Mem(<<"limit">>, "u32", 192, Some(0)) >>)
 @@ "struct nf_conn" :> RecT("Struct", <<
        Mem(<<"status">>, "long unsigned int", 1024, None),
        Mem(<<"timeout">>, "u32", 1088, None),
        Mem(<<"mark">>, "u32", 1344, None) >>)

\* the types of the BTF of the kernel, by name
BtfTypes ==
    (BtfBaseTypes @@ BtfTypedefs @@ BtfEnums @@ BtfRecordPtrs)
 @@ (BtfScalarPtrs @@ BtfArrays @@ BtfSkbRecords @@ BtfDevRecords)

\* Btf::resolve_types_by_name: the candidates a name resolves to (several
\* kinds may share a name); an unknown name is an error.
BtfNames ==
    <<"sk_buff">> :> <<"func sk_buff", "struct sk_buff">>
 @@ <<"net_device">> :> <<"struct net_device">>
 @@ <<"nf_conn">> :> <<"struct nf_conn">>
 @@ <<"nf_conn_t">> :> <<"nf_conn_t">>
 @@ <<"nf_conn_ptr_t">> :> <<"nf_conn_ptr_t">>
 @@ <<"u32">> :> <<"u32">>
 @@ <<"netdev_reg_state">> :> <<"enum netdev_reg_state">>

resolve_types_by_name(name) ==
    IF name \in DOMAIN BtfNames THEN Ok(BtfNames[name]) ELSE Err("BTF: name not found")

Kind(t) == BtfTypes[t].kind
Transparent == {"Typedef", "Volatile", "Const", "Restrict", "DeclTag", "TypeTag"}
\* the kinds that refer to a further type
Chained == Transparent \cup {"Ptr", "Array"}

\* Btf::type_iter: the types that follow t in its chain, t itself excluded
RECURSIVE type_iter(_)
type_iter(t) ==
    With(BtfTypes[t], LAMBDA ty :
        IF ty.kind \in Chained THEN <<ty.type>> \o type_iter(ty.type) ELSE <<>>)

\* ------------------------------------------------------------------------
\* MetaCmp, MetaLoad, MetaOp
\* ------------------------------------------------------------------------
MetaCmp_Eq == 0
MetaCmp_Gt == 1
MetaCmp_Lt == 2
MetaCmp_Ge == 3
MetaCmp_Le == 4
MetaCmp_Ne == 5

MetaCmp_from_str(op) ==
    IF op = <<"=", "=">> THEN Ok(MetaCmp_Eq)
    ELSE IF op = <<">">> THEN Ok(MetaCmp_Gt)
    ELSE IF op = <<"<">> THEN Ok(MetaCmp_Lt)
    ELSE IF op = <<">", "=">> THEN Ok(MetaCmp_Ge)
    ELSE IF op = <<"<", "=">> THEN Ok(MetaCmp_Le)
    ELSE IF op = <<"!", "=">> THEN Ok(MetaCmp_Ne)
    ELSE Err("unknown comparison operator")

is_byte(l) == BitAnd(l.type, 31) = MetaType_Char
is_short(l) == BitAnd(l.type, 31) = MetaType_Short
is_int(l) == BitAnd(l.type, 31) = MetaType_Int
is_long(l) == BitAnd(l.type, 31) = MetaType_Long
is_num(l) == is_byte(l) \/ is_short(l) \/ is_int(l) \/ is_long(l)
is_ptr(l) == BitAnd(l.type, PTR_BIT) > 0
is_signed(l) == BitAnd(l.type, SIGN_BIT) > 0
is_arr(l) == l.nmemb > 0

\* MetaOp::new() seen through load_ref_mut / target_ref_mut: all zero
NewLoad == [op |-> "Load", type |-> 0, nmemb |-> 0, offt |-> 0, bf_size |-> 0,
            mask |-> U64Zero]
NewTarget == [op |-> "Target", md |-> Rep(0, META_TARGET_MAX), sz |-> 0, cmp |-> 0]

emit_load_ptr(offt, mask) ==
    IF offt \div 8 > U16Max THEN Err("TryFromIntError")
    ELSE Ok([NewLoad EXCEPT !.offt = offt \div 8, !.type = PTR_BIT, !.mask = mask])

\* variant of emit_load_int that forgets bail_on_ptr
emit_load_int_arr_only(l2) ==
    IF ~is_byte(l2) /\ is_arr(l2) THEN Err("array of are not supported") ELSE Ok(l2)

\* the Int arm of emit_load, after the sign and the size are set
emit_load_int(l2) ==
    IF ~is_byte(l2) /\ is_arr(l2) THEN Err("array of are not supported")
    ELSE IF ~is_byte(l2) /\ is_ptr(l2) THEN Err("pointers to are not supported")
    ELSE Ok(l2)

\* one iteration of the loop of emit_load, on a type ty of the chain
emit_load_one(lop, ty) ==
    IF ty.kind = "Ptr" THEN
        IF is_ptr(lop) THEN Err("pointers to are not supported")
        ELSE Ok([lop EXCEPT !.type = BitOr(lop.type, PTR_BIT)])
    ELSE IF ty.kind = "Array" THEN
        IF is_ptr(lop) THEN Err("pointers to are not supported")
        ELSE IF ty.len > U8Max THEN Err("TryFromIntError")
        ELSE Ok([lop EXCEPT !.nmemb = ty.len])
    ELSE IF ty.kind \in {"Enum", "Enum64"} THEN
        IF is_ptr(lop) THEN Err("pointers to are not supported")
        ELSE Ok([lop EXCEPT !.type =
                   BitOr(BitOr(lop.type,
                               IF ty.kind = "Enum" THEN MetaType_Int ELSE MetaType_Long),
                         IF ty.signed THEN SIGN_BIT ELSE 0)])
    ELSE IF ty.kind = "Int" THEN
        IF ty.size \notin {1, 2, 4, 8} THEN Err("unsupported type")
        ELSE emit_load_int([lop EXCEPT !.type =
                   BitOr(BitOr(lop.type, IF ty.signed THEN SIGN_BIT ELSE 0),
                         CASE ty.size = 8 -> MetaType_Long
                           [] ty.size = 4 -> MetaType_Int
                           [] ty.size = 2 -> MetaType_Short
                           [] ty.size = 1 -> MetaType_Char)])
    ELSE IF ty.kind \in Transparent THEN Ok(lop)
    ELSE Err("found unsupported type while emitting operation")

RECURSIVE emit_load_loop(_, _, _)
emit_load_loop(lop, ts, i) ==
    IF i > Len(ts) THEN Ok(lop)
    ELSE Then(emit_load_one(lop, BtfTypes[ts[i]]),
              LAMBDA l : emit_load_loop(l, ts, i + 1))

\* variant of mask_allowed that forgets the sign
mask_allowed_any_num(lop) == is_ptr(lop) \/ is_num(lop)

\* emit_load:272, the Loads a mask may be set on
mask_allowed(lop) == is_ptr(lop) \/ (is_num(lop) /\ ~is_signed(lop))

\* the end of emit_load (271-286): the mask, the bitfield size, the offset
emit_load_finish(lop, offt, bfs, mask) ==
    IF ~U64IsZero(mask) /\ ~mask_allowed(lop)
    THEN Err("mask is only supported for pointers and unsigned numeric members")
    ELSE IF bfs > U8Max THEN Err("TryFromIntError")
    ELSE IF offt > U16Max THEN Err("TryFromIntError")
    ELSE Ok([lop EXCEPT !.mask = mask,
                        !.bf_size = bfs,
                        !.offt = IF bfs = 0 THEN offt \div 8 ELSE offt])

emit_load(type, offt, bfs, mask) ==
    IF Kind(type) = "Void" THEN Err("Unable to retrieve iterable BTF type")
    ELSE Then(emit_load_loop(NewLoad, <<type>> \o type_iter(type), 1),
              LAMBDA lop : emit_load_finish(lop, offt, bfs, mask))

\* Rval::from_str.  rval[1..rval.len() - 1] panics when the token is a single
\* quote character: the range then starts at 1 and ends at 0.
Rval_from_str(rval) ==
    IF (StartsWith(rval, <<"\"">>) /\ EndsWith(rval, <<"\"">>))
       \/ (StartsWith(rval, <<"'">>) /\ EndsWith(rval, <<"'">>))
    THEN IF Len(rval) - 1 < 1
         THEN [panic |-> TRUE, kind |-> "Str", val |-> <<>>]
         ELSE [panic |-> FALSE, kind |-> "Str", val |-> SubSeq(rval, 2, Len(rval) - 1)]
    ELSE IF StartsWith(rval, <<"0", "x">>)
    THEN [panic |-> FALSE, kind |-> "Hex", val |-> TrimStartMatches(rval, <<"0", "x">>)]
    ELSE [panic |-> FALSE, kind |-> "Dec", val |-> rval]

\* variant of to_ne_bytes that takes every host for a little-endian one
to_le_bytes(v, byte_order) == v

\* u64::to_ne_bytes on a host of the given byte order
to_ne_bytes(v, byte_order) == IF byte_order = "little" THEN v ELSE Reverse(v)

\* the `?` on a parse result: a ParseIntError is returned as it is
ParsedInt(r) == IF r.ok THEN r ELSE Err("ParseIntError")

\* variant of emit_target_long that parses a negative decimal whatever the sign
\* of the Load
emit_target_long_any_sign(lmo, rval) ==
    IF rval.kind = "Dec" THEN
        ParsedInt(IF StartsWith(rval.val, <<"-">>) THEN I64Parse(rval.val)
                  ELSE U64FromStrRadix(rval.val, 10))
    ELSE IF rval.kind = "Hex" THEN ParsedInt(U64FromStrRadix(rval.val, 16))
    ELSE Err("invalid target value (neither decimal nor hex)")

\* the numeric branch of emit_target: the RHS as a u64
emit_target_long(lmo, rval) ==
    IF rval.kind = "Dec" THEN
        IF StartsWith(rval.val, <<"-">>) /\ ~is_signed(lmo)
        THEN Err("invalid target value (value is signed while type is unsigned)")
        ELSE ParsedInt(IF StartsWith(rval.val, <<"-">>) THEN I64Parse(rval.val)
                       ELSE U64FromStrRadix(rval.val, 10))
    ELSE IF rval.kind = "Hex" THEN ParsedInt(U64FromStrRadix(rval.val, 16))
    ELSE Err("invalid target value (neither decimal nor hex)")

\* top.sz of a numeric target
target_size(lmo) ==
    IF is_byte(lmo) THEN 1 ELSE IF is_short(lmo) THEN 2 ELSE IF is_int(lmo) THEN 4 ELSE 8

\* variant of string_cmp_ok that lets every operator through
string_cmp_any(cmp_op) == TRUE

\* emit_target:294, the operators a string comparison may use
string_cmp_ok(cmp_op) == ~(cmp_op # MetaCmp_Eq /\ cmp_op # MetaCmp_Ne)

\* variant of rval_fits that is off by one
rval_fits_whole(rval_len) == ~(rval_len > META_TARGET_MAX)

\* emit_target:305, the string lengths md has room for
rval_fits(rval_len) == ~(rval_len >= META_TARGET_MAX)

emit_target(lmo, rval, cmp_op, byte_order) ==
    IF is_ptr(lmo) \/ lmo.nmemb > 0 THEN
        IF ~string_cmp_ok(cmp_op)
        THEN Err("wrong comparison operator")
        ELSE IF rval.kind = "Str" THEN
            IF ~rval_fits(Len(rval.val)) THEN Err("invalid rval size")
            ELSE Ok([NewTarget EXCEPT
                       !.md = rval.val \o Rep(0, META_TARGET_MAX - Len(rval.val)),
                       !.sz = Len(rval.val),
                       !.cmp = cmp_op])
        ELSE Err("invalid target value for array or ptr type")
    ELSE IF is_num(lmo) THEN
        Then(emit_target_long(lmo, rval), LAMBDA long :
            Ok([NewTarget EXCEPT
                  !.md = to_ne_bytes(long, byte_order) \o Rep(0, META_TARGET_MAX - 8),
                  !.sz = target_size(lmo),
                  !.cmp = cmp_op]))
    ELSE Ok([NewTarget EXCEPT !.cmp = cmp_op])

\* ------------------------------------------------------------------------
\* Walking the type graph
\* ------------------------------------------------------------------------
IsRecordType(ty) == ty.kind \in {"Struct", "Union"}

RECURSIVE walk_btf_node(_, _, _)
\* one iteration of the member loop of walk_btf_node: it returns val, or
\* the loop goes on to the next member
walk_member(m, node_name, offset) ==
    IF m.name = node_name
    THEN [ret |-> TRUE,
          val |-> Some([offt |-> offset + m.bit_offset,
                        bfs |-> m.bitfield_size,
                        ty |-> m.type])]
    ELSE IF m.name = <<>> THEN
         IF IsRecordType(BtfTypes[m.type])
         THEN With(walk_btf_node(m.type, node_name, offset + m.bit_offset),
                   LAMBDA r : [ret |-> IsSome(r), val |-> r])
         ELSE [ret |-> TRUE, val |-> None]
    ELSE [ret |-> FALSE, val |-> None]

\* the member loop of walk_btf_node: what the first iteration that returns
\* gives, None when none does
walk_members(ms, node_name, offset) ==
    With({i \in 1..Len(ms) : walk_member(ms[i], node_name, offset).ret}, LAMBDA rets :
        IF rets = {} THEN None
        ELSE walk_member(ms[CHOOSE i \in rets : \A j \in rets : i <= j],
                         node_name, offset).val)

walk_btf_node(type, node_name, offset) ==
    With(BtfTypes[type], LAMBDA ty :
        IF ~IsRecordType(ty) THEN None
        ELSE walk_members(ty.members, node_name, offset))

\* FilterMeta::check_one_walkable: val.walkable, and the indirections counted
check_one_walkable(ty, ind, casted) ==
    IF ty.kind = "Int" /\ ty.size = PtrSize /\ casted
    THEN Ok([walkable |-> FALSE, ind |-> ind + 1])
    ELSE IF ty.kind = "Ptr" THEN Ok([walkable |-> FALSE, ind |-> ind + 1])
    ELSE IF ty.kind \in {"Struct", "Union"} THEN Ok([walkable |-> TRUE, ind |-> ind])
    ELSE IF ty.kind \in Transparent THEN Ok([walkable |-> FALSE, ind |-> ind])
    ELSE Err("unexpected type while walking struct members")

RECURSIVE next_walkable_loop(_, _, _, _)
next_walkable_loop(ts, i, ind, casted) ==
    IF i > Len(ts) THEN Err("failed to retrieve next walkable object")
    ELSE Then(check_one_walkable(BtfTypes[ts[i]], ind, casted), LAMBDA c :
            IF c.walkable THEN Ok([ind |-> c.ind, type |-> ts[i]])
            ELSE next_walkable_loop(ts, i + 1, c.ind, casted))

next_walkable(type, casted) ==
    Then(check_one_walkable(BtfTypes[type], 0, casted), LAMBDA c :
        IF c.walkable THEN Ok([ind |-> 0, type |-> type])
        ELSE IF casted THEN Ok([ind |-> c.ind, type |-> type])
        ELSE next_walkable_loop(type_iter(type), 1, c.ind, casted))

\* ------------------------------------------------------------------------
\* Parsing the filter string
\* ------------------------------------------------------------------------
\* variant of parse_mask_value that lets a zero mask through
parse_mask_value_any(mask) == Ok(mask)

\* parse_mask:497-502
parse_mask_value(mask) ==
    IF U64IsZero(mask) THEN Err("mask cannot be zero") ELSE Ok(mask)

\* parse_mask:483-495, after the '~' is stripped
parse_mask_digits(el) ==
    IF StartsWith(el, <<"0", "x">>) THEN U64FromStrRadix(SubSeq(el, 3, Len(el)), 16)
    ELSE IF StartsWith(el, <<"0", "b">>) THEN U64FromStrRadix(SubSeq(el, 3, Len(el)), 2)
    ELSE U64FromStrRadix(el, 10)

parse_mask(el) ==
    With(parse_mask_digits(IF StartsWith(el, <<"~">>) THEN Tail(el) ELSE el), LAMBDA r :
        IF ~r.ok THEN Err("invalid mask")
        ELSE parse_mask_value(IF StartsWith(el, <<"~">>) THEN U64Not(r.val) ELSE r.val))

\* the closure parse_filter maps over the dot-separated LHS, on the
\* colon-separated parts of one node
parse_node(first, elem) ==
    IF first /\ elem[1] # <<"sk_buff">>
    THEN Err("starting struct isn't supported (not sk_buff)")
    ELSE IF Len(elem) >= 2 /\ first
    THEN Err("initial type must be a base type only")
    ELSE Then(IF Len(elem) >= 2 THEN parse_mask(elem[2]) ELSE Ok(U64Zero), LAMBDA m :
            IF Len(elem) >= 4 THEN Err("unexpected field expression")
            ELSE Ok([member |-> elem[1],
                     mask |-> m,
                     tgt_type |-> IF Len(elem) >= 3 THEN Some(elem[3]) ELSE None]))

\* collect::<Result<Vec<LhsNode>>>: the nodes, or the first error
FirstErr(rs) == rs[CHOOSE i \in 1..Len(rs) : ~rs[i].ok /\ \A j \in 1..(i - 1) : rs[j].ok]
Collect(rs) ==
    IF \A i \in 1..Len(rs) : rs[i].ok THEN Ok([i \in 1..Len(rs) |-> rs[i].val])
    ELSE FirstErr(rs)
parse_nodes(texts) ==
    Collect([i \in 1..Len(texts) |-> parse_node(i = 1, Split(texts[i], ":"))])

\* variant of parse_tokens that lets an LHS of one node through
parse_tokens_one_node(lhs_s, op_s, rhs) ==
    Then(parse_nodes(Split(lhs_s, ".")), LAMBDA lhs :
        IF Len(lhs) < 1 THEN Err("expression does not point to a member")
        ELSE Then(MetaCmp_from_str(op_s), LAMBDA cmp :
                Ok([lhs |-> lhs, op |-> cmp, rhs |-> rhs])))

\* parse_filter:519-563, on the three tokens
parse_tokens(lhs_s, op_s, rhs) ==
    Then(parse_nodes(Split(lhs_s, ".")), LAMBDA lhs :
        IF Len(lhs) <= 1 THEN Err("expression does not point to a member")
        ELSE Then(MetaCmp_from_str(op_s), LAMBDA cmp :
                Ok([lhs |-> lhs, op |-> cmp, rhs |-> rhs])))

\* variant of parse_filter in which a lone LHS stands for LHS == 0
parse_filter_eq_default(filter) ==
    With(Split(filter, " "), LAMBDA expr :
        IF Len(expr) = 3 THEN parse_tokens(expr[1], expr[2], expr[3])
        ELSE IF Len(expr) = 1 THEN parse_tokens(expr[1], <<"=", "=">>, <<"0">>)
        ELSE Err("invalid filter"))

parse_filter(filter) ==
    With(Split(filter, " "), LAMBDA expr :
        IF Len(expr) = 3 THEN parse_tokens(expr[1], expr[2], expr[3])
        ELSE IF Len(expr) = 1 THEN parse_tokens(expr[1], <<"!", "=">>, <<"0">>)
        ELSE Err("invalid filter"))

\* Iterator::find over the candidates of a name
RECURSIVE find_kind(_, _, _)
find_kind(types, i, kinds) ==
    IF i > Len(types) THEN None
    ELSE IF Kind(types[i]) \in kinds THEN Some(types[i])
    ELSE find_kind(types, i + 1, kinds)

\* from_string:579-587, the root type
resolve_root(init_sym) ==
    With(resolve_types_by_name(init_sym), LAMBDA types :
        IF ~types.ok THEN Err("unable to resolve sk_buff data type")
        ELSE With(find_kind(types.val, 1, {"Struct"}), LAMBDA f :
                IF IsSome(f) THEN Ok(Unwrap(f))
                ELSE Err("Could not resolve to a struct")))

\* variant of cast_walkable that takes the cast type through a pointer
cast_walkable_any(t) ==
    Then(next_walkable(t, FALSE), LAMBDA nw : Ok(nw.type))

\* from_string:629-637, the cast type found
cast_walkable(t) ==
    Then(next_walkable(t, FALSE), LAMBDA nw :
        IF nw.ind > 0 THEN Err("cast type cannot be an alias to a pointer")
        ELSE Ok(nw.type))

\* from_string:619-640, the type a cast continues with
resolve_cast(tgt) ==
    With(resolve_types_by_name(tgt), LAMBDA types :
        IF ~types.ok THEN Err("unable to resolve data type")
        ELSE With(find_kind(types.val, 1, {"Union", "Struct", "Typedef"}), LAMBDA f :
                IF ~IsSome(f) THEN Err("Could not resolve to a struct or typedef")
                ELSE cast_walkable(Unwrap(f))))

\* ------------------------------------------------------------------------
\* from_string:589-660, one iteration of the loop over the fields.  `l` holds
\* the locals (type, offt, ops, stored_offset, stored_bf_size, mask); the
\* result holds them as the iteration leaves them, the error if it bailed
\* out, what walk_btf_node found and the indirections next_walkable counted
\* (-1 when it was not reached).
\* ------------------------------------------------------------------------
WalkResult(e, l, ind, found) == [err |-> e, l |-> l, ind |-> ind, found |-> found]

\* variant of walk_store that keeps the offset stored before
walk_store_stale_offset(l, sub) ==
    [l EXCEPT !.stored_bf_size = IF IsSome(sub.bfs) THEN Unwrap(sub.bfs)
                                 ELSE l.stored_bf_size]

\* 653-656
walk_store(l, sub) ==
    [l EXCEPT !.stored_offset = sub.offt,
              !.stored_bf_size = IF IsSome(sub.bfs) THEN Unwrap(sub.bfs)
                                 ELSE l.stored_bf_size]

\* 619-643: the type the walk continues with
walk_cast(l, field, sub, nw) ==
    With(IF IsSome(field.tgt_type) THEN resolve_cast(Unwrap(field.tgt_type))
         ELSE Ok(nw.type),
         LAMBDA cast :
           IF ~cast.ok THEN WalkResult(cast.err, l, nw.ind, Some(sub))
           ELSE WalkResult("", walk_store([l EXCEPT !.type = cast.val], sub),
                           nw.ind, Some(sub)))

\* the locals as a failed step leaves them
Failed(e, l) == [ok |-> FALSE, val |-> l, err |-> e]

\* variant of walk_deref that carries the offset on across a pointer
walk_deref_keep_offt(l, field, sub, nw) ==
    IF nw.ind = 1 THEN
        With(emit_load_ptr(sub.offt, field.mask), LAMBDA ptr :
            IF ~ptr.ok THEN Failed(ptr.err, l)
            ELSE Ok([l EXCEPT !.offt = sub.offt, !.ops = Append(l.ops, ptr.val)]))
    ELSE IF nw.ind > 1 THEN Failed("pointers of pointers are not supported", l)
    ELSE IF ~U64IsZero(field.mask)
    THEN Failed("intermediate members masking is only supported for pointers", l)
    ELSE Ok([l EXCEPT !.offt = sub.offt])

\* 602-617: the pointer Load, or the offset carried on
walk_deref(l, field, sub, nw) ==
    IF nw.ind = 1 THEN
        With(emit_load_ptr(sub.offt, field.mask), LAMBDA ptr :
            IF ~ptr.ok THEN Failed(ptr.err, [l EXCEPT !.offt = 0])
            ELSE Ok([l EXCEPT !.offt = 0, !.ops = Append(l.ops, ptr.val)]))
    ELSE IF nw.ind > 1 THEN Failed("pointers of pointers are not supported", l)
    ELSE IF ~U64IsZero(field.mask)
    THEN Failed("intermediate members masking is only supported for pointers", l)
    ELSE Ok([l EXCEPT !.offt = sub.offt])

\* 593-643: a field that is not the last
walk_inner(l, field, sub) ==
    With(next_walkable(sub.ty, IsSome(field.tgt_type)), LAMBDA nw :
        IF ~nw.ok THEN WalkResult(nw.err, l, -1, Some(sub))
        ELSE With(walk_deref(l, field, sub, nw.val), LAMBDA d :
                IF ~d.ok THEN WalkResult(d.err, d.val, nw.val.ind, Some(sub))
                ELSE walk_cast(d.val, field, sub, nw.val)))

\* 644-651: the last field
walk_leaf(l, field, sub) ==
    IF IsSome(field.tgt_type)
    THEN WalkResult("trying to cast a leaf member", l, -1, Some(sub))
    ELSE WalkResult("", walk_store([l EXCEPT !.type = sub.ty, !.mask = field.mask], sub),
                    -1, Some(sub))

walk_field(l, field, last) ==
    With(walk_btf_node(l.type, field.member, l.offt), LAMBDA sub_node :
        IF ~IsSome(sub_node) THEN WalkResult("field not found", l, -1, None)
        ELSE IF last THEN walk_leaf(l, field, Unwrap(sub_node))
        ELSE walk_inner(l, field, Unwrap(sub_node)))

\* ------------------------------------------------------------------------
\* The filters from_string is given
\* ------------------------------------------------------------------------
MaxRvalLen == 32
MaxHops == 31

Join(parts, sep) ==
    Loop(LAMBDA acc, i : IF i = 1 THEN parts[1] ELSE acc \o <<sep>> \o parts[i],
         1, Len(parts), <<>>)

\* node texts: member, member:mask, member:mask:cast
N(m) == <<m>>
NM(m, mask) == <<m, ":">> \o mask
NMC(m, mask, cast) == <<m, ":">> \o mask \o <<":", cast>>
\* sk_buff.<nodes>
Lhs(nodes) == Join(<<N("sk_buff")>> \o nodes, ".")
Quoted(q, content) == <<q>> \o content \o <<q>>

M_ff == <<"0", "x", "f", "f">>
M_not0 == <<"~", "0", "x", "0">>
Dummy0 == <<"d", "u", "m", "m", "y", "0">>

OpTexts ==
    { <<"=", "=">>, <<"!", "=">>, <<"<">>, <<"<", "=">>, <<">">>, <<">", "=">>, <<"=">> }

RhsTexts ==
    { <<"0", "x", "c", "0", "d", "e">>, <<"1">>, <<"0">>, <<"-", "1">>, <<"+", "5">>,
      <<"4", "2", "9", "4", "9", "6", "7", "2", "9", "6">>,
      <<"1", "8", "4", "4", "6", "7", "4", "4", "0", "7", "3", "7", "0", "9", "5", "5",
        "1", "6", "1", "5">>,
      <<"1", "8", "4", "4", "6", "7", "4", "4", "0", "7", "3", "7", "0", "9", "5", "5",
        "1", "6", "1", "6">>,
      <<"-", "9", "2", "2", "3", "3", "7", "2", "0", "3", "6", "8", "5", "4", "7", "7",
        "5", "8", "0", "8">>,
      <<"-", "9", "2", "2", "3", "3", "7", "2", "0", "3", "6", "8", "5", "4", "7", "7",
        "5", "8", "0", "9">>,
      <<"0", "x">> \o Rep("f", 16), <<"0", "x", "1">> \o Rep("0", 16),
      <<"0", "x">>, <<"0", "x", "0", "x", "1", "0">>, <<"0", "x", "+", "f">>,
      <<>>, <<"'">>, <<"\"">>, <<"-">>,
      Dummy0, <<"'">> \o Dummy0, <<"'">> \o Dummy0 \o <<"\"">>,
      Quoted("\"", Dummy0), Quoted("'", <<"4", "2">>) }
    \cup { Quoted("'", Rep("a", n)) :
             n \in {0, 1, 6, META_TARGET_MAX - 2, META_TARGET_MAX - 1, MaxRvalLen} }

\* LHS ending on each shape of terminal member
TerminalLhs ==
    { Lhs(<<N("mark")>>), Lhs(<<N("headers"), N("skb_iif")>>), Lhs(<<N("pkt_type")>>),
      Lhs(<<N("mac_len")>>), Lhs(<<N("tstamp")>>), Lhs(<<N("dev"), N("name")>>),
      Lhs(<<N("head")>>), Lhs(<<N("dev"), N("states")>>),
      Lhs(<<N("dev"), N("reg_state")>>) }

\* LHS exercising the walk: pointers, inner records, casts, unsupported types
WalkLhs ==
    { Lhs(<<N("dev")>>), Lhs(<<N("dev"), N("mtu")>>), Lhs(<<N("dev"), N("min_mtu")>>),
      Lhs(<<N("dev"), N("pcpu_refcnt")>>), Lhs(<<N("dev"), N("stat")>>),
      Lhs(<<N("dev"), N("ifalias")>>), Lhs(<<N("dev"), N("ml_priv")>>),
      Lhs(<<N("dev"), N("state")>>), Lhs(<<N("dev"), N("stats64")>>),
      Lhs(<<N("dev"), N("gso_ipv4")>>), Lhs(<<N("dev"), N("aliases")>>),
      Lhs(<<N("dev"), N("pname")>>), Lhs(<<N("dev"), N("palias")>>),
      Lhs(<<N("dev"), N("pstate")>>), Lhs(<<N("dev"), N("wide")>>),
      Lhs(<<N("dev"), N("ratio")>>), Lhs(<<N("dev"), N("longname")>>),
      Lhs(<<N("dev"), N("perm_addr")>>), Lhs(<<N("dev"), N("priv")>>),
      Lhs(<<N("dev"), N("master"), N("mtu")>>), Lhs(<<N("dev"), N("upper"), N("mtu")>>),
      Lhs(<<N("dev"), N("ifindex")>>), Lhs(<<N("dev"), N("qdisc"), N("flags")>>),
      Lhs(<<N("dev"), N("qdisc_sleeping"), N("flags")>>),
      Lhs(<<N("dev"), N("qdisc"), N("limit")>>),
      Lhs(<<N("cb")>>), Lhs(<<N("_nfct")>>), Lhs(<<N("len")>>), Lhs(<<N("cloned")>>),
      Lhs(<<N("ext_ref")>>), Lhs(<<N("drop_reason")>>), Lhs(<<N("dev_scratch")>>),
      Lhs(<<N("prev"), N("dev"), N("name")>>),
      Lhs(<<N("rbnode"), N("__rb_parent_color")>>),
      Lhs(<<N("rbnode"), N("rb_right"), N("__rb_parent_color")>>),
      Lhs(<<N("headers")>>), Lhs(<<N("headers"), N("mark")>>),
      Lhs(<<N("headers"), N("vlan_tci")>>), Lhs(<<N("_dev"), N("mtu")>>),
      Lhs(<<N("nosuch")>>), Lhs(<<N("dev"), N("nosuch")>>), Lhs(<<N("mark"), N("x")>>),
      Lhs(<<N("cb"), N("x")>>), Lhs(<<<<>>>>), Lhs(<<<<>>, N("next")>>),
      Lhs(<<<<>>, N("rbnode"), N("__rb_parent_color")>>),
      Lhs(<<N("mark"), N("mark")>>), Lhs(<<<<"mark", "0">>>>),
      Lhs(<<NMC("_nfct", M_not0, "nf_conn"), N("mark")>>),
      Lhs(<<NMC("_nfct", M_not0, "nf_conn_t"), N("mark")>>),
      Lhs(<<NMC("_nfct", M_not0, "nf_conn_ptr_t"), N("mark")>>),
      Lhs(<<NMC("_nfct", M_not0, "u32"), N("mark")>>),
      Lhs(<<NMC("_nfct", M_not0, "nosuch"), N("mark")>>),
      Lhs(<<NMC("_nfct", M_not0, "netdev_reg_state"), N("mark")>>),
      Lhs(<<NMC("_nfct", M_not0, "sk_buff"), N("mark")>>),
      Lhs(<<NMC("_nfct", <<>>, "nf_conn"), N("mark")>>),
      Lhs(<<NMC("_nfct", M_not0, "nf_conn") \o <<":", "x">>, N("mark")>>),
      Lhs(<<NMC("cloned", M_not0, "nf_conn")>>),
      Lhs(<<NMC("cloned", M_not0, "nf_conn"), N("mark")>>),
      Lhs(<<NMC("len", M_not0, "nf_conn"), N("mark")>>),
      Lhs(<<NMC("mac_len", M_not0, "nf_conn"), N("mark")>>),
      Lhs(<<NMC("cb", M_not0, "nf_conn"), N("mark")>>),
      Lhs(<<N("_nfct"), NMC("mark", M_not0, "nf_conn")>>),
      Lhs(<<NMC("dev", M_ff, "nf_conn"), N("mark")>>),
      Lhs(<<NMC("_ct", M_ff, "nf_conn"), N("mark")>>),
      Lhs(<<NMC("_dev", M_ff, "net_device"), N("mtu")>>),
      Lhs(<<NMC("ext_ref", M_ff, "nf_conn"), N("mark")>>),
      Lhs(<<NMC("ext_ref", M_ff, "net_device"), N("mtu")>>),
      Lhs(<<NMC("dev_scratch", M_ff, "net_device"), N("name")>>),
      Lhs(<<NMC("headers", M_ff, "nf_conn"), N("mark")>>),
      Lhs(<<NMC("dev", M_ff, "nf_conn"), NMC("status", M_ff, "net_device"),
            N("mtu")>>),
      Lhs(<<NM("headers", M_ff), N("mark")>>), Lhs(<<NM("dev", M_ff), N("mtu")>>),
      Lhs(<<NM("dev", M_not0), N("mtu")>>), Lhs(<<NM("dev", M_ff), N("name")>>) }

\* LHS whose terminal node carries a mask, and masks in every written form
MaskLhs ==
    { Lhs(<<NM("mark", m)>>) :
        m \in { M_ff, M_not0, <<"0", "x", "0">>, <<"~", "0", "x">> \o Rep("f", 16),
                <<"0", "b", "0", "0">>, <<"0">>, <<"2", "5", "5">>, <<"0", "b", "1", "0">>,
                <<"~", "0", "b", "1", "0">>, <<"0", "x", "+", "f", "f">>, <<"~">>,
                <<"0", "x">>, <<"~", "~", "1">>, <<"0", "b", "2">>, <<"f", "f">>, <<>>,
                <<"1", "8", "4", "4", "6", "7", "4", "4", "0", "7", "3", "7", "0", "9",
                  "5", "5", "1", "6", "1", "6">> } }
    \cup { Lhs(<<N("headers"), NM("skb_iif", <<"0", "x", "b", "a", "d">>)>>),
           Lhs(<<NM("pkt_type", <<"0", "x", "2">>)>>),
           Lhs(<<NM("pkt_type", <<"~", "0", "b", "1", "0">>)>>),
           Lhs(<<N("dev"), NM("name", <<"~", "0", "x", "0", "0">>)>>),
           Lhs(<<N("dev"), NM("perm_addr", M_ff)>>), Lhs(<<NM("head", M_ff)>>),
           Lhs(<<N("dev"), NM("reg_state", M_ff)>>), Lhs(<<NM("drop_reason", M_ff)>>),
           Lhs(<<N("dev"), NM("states", M_ff)>>), Lhs(<<N("dev"), NM("ifalias", M_ff)>>),
           Lhs(<<NM("tstamp", M_ff)>>),
           NM("sk_buff", M_ff) \o <<".", "mark">> }

\* sk_buff.next. ... .next.mark with n hops
ChainLhs(n) == Lhs([i \in 1..n |-> N("next")] \o <<N("mark")>>)

Filters ==
    { Join(<<lhs, op, rhs>>, " ") : lhs \in TerminalLhs, op \in OpTexts, rhs \in RhsTexts }
    \cup { Join(<<lhs, <<"=", "=">>, rhs>>, " ") :
             lhs \in WalkLhs \cup MaskLhs, rhs \in {<<"1">>, Quoted("'", Dummy0)} }
    \cup TerminalLhs \cup WalkLhs \cup MaskLhs
    \cup { ChainLhs(n) : n \in 0..MaxHops }
    \cup { <<>>, N("sk_buff"), <<"dev", ".", "mark", " ", "=", "=", " ", "1">>,
           Lhs(<<N("mark")>>) \o <<" ", "=", "=">>,
           Lhs(<<N("mark")>>) \o <<" ", "=", "=", " ", "1", " ", "2">>,
           Lhs(<<N("mark")>>) \o <<" ", " ", "=", "=", " ", "1">>,
           Lhs(<<N("mark")>>) \o <<" ", "=", "=", " ", " ", "1">>,
           Lhs(<<N("dev"), N("name")>>) \o <<" ", "=", "=", " ", "'", "a", " ", "b", "'">>,
           NMC("sk_buff", M_ff, "nf_conn") \o <<".", "mark">>,
           NMC("sk_buff", <<>>, "nf_conn") \o <<".", "mark">>,
           <<"sk_buff", "0", ".", "mark">>, <<" ">>, <<".", "mark">>,
           Lhs(<<N("dev"), NMC("upper", M_ff, "net_device"), N("mtu")>>),
           Lhs(<<N("dev"), NMC("palias", M_ff, "nf_conn"), N("mark")>>) }

\* ------------------------------------------------------------------------
\* FilterMeta::from_string as a state machine
\* ------------------------------------------------------------------------
VARIABLES
    filter,          \* fstring
    byte_order,      \* the byte order of the host the compiler is built for
    pc,              \* "parse", "root", "walk", "emit_load", "emit_target", "done"
    fields, op, rval, init_sym,   \* the result of parse_filter
    pos,             \* index of the field the loop is at (1-based)
    type, offt, ops, stored_offset, stored_bf_size, mask,   \* the locals
    result,          \* "none", "ok", "err", "panic"
    err,             \* the error from_string returned
    prog,            \* the FilterMeta from_string returned
    walked,          \* history: what walk_btf_node and next_walkable gave per field
    event,           \* the raw event vector build_raw_section appends to
    sections,        \* history: the (owner, data_type, data) of each call
    builder,         \* build_raw_event: index of the section builder to call next
    raw_event,       \* build_raw_event: what it returned
    run_pc,          \* Print::run: "idle", "setup", "loop", "next_event", "process", "done"
    running,         \* Print::run: the flag of Running the signal handler clears
    current,         \* Print::run: what next_event returned (an event, Eof, Timeout, Err)
    ret,             \* Print::run: what it returned
    read,            \* history: the events the factory returned
    output,          \* history: the events handed to process_one
    read_after_signal, \* history: a next_event call began with the flag cleared
    process,         \* the Process that is queried
    target,          \* Process::is_usdt: its argument
    symbol,          \* Process::get_note_from_symbol: its argument
    overflow_checks, \* whether the build panics on integer overflow or wraps
    proc_ret         \* what the call on the Process returned

vars == <<filter, byte_order, pc, fields, op, rval, init_sym, pos, type, offt, ops,
          stored_offset, stored_bf_size, mask, result, err, prog, walked,
          event, sections, builder, raw_event,
          run_pc, running, current, ret, read, output, read_after_signal,
          process, target, symbol, overflow_checks, proc_ret>>

parsed == <<fields, op, rval, init_sym>>
locals == <<type, offt, ops, stored_offset, stored_bf_size, mask>>
raw == <<event, sections, builder, raw_event>>
printing == <<run_pc, running, current, ret, read, output, read_after_signal>>
\* Print::run has not been called
NotPrinting ==
    /\ run_pc = "idle" /\ running = TRUE /\ current = "" /\ ret = "none"
    /\ read = <<>> /\ output = <<>> /\ read_after_signal = FALSE
user == <<process, target, symbol, overflow_checks, proc_ret>>
\* no Process is queried
NotQuerying ==
    /\ process = <<>> /\ target = <<>> /\ symbol = <<>>
    /\ overflow_checks = TRUE /\ proc_ret = [op |-> "none"]
\* build_raw_event has not been called
NotBuilding == builder = 0 /\ raw_event = [kind |-> "none", bytes |-> <<>>]

Init ==
    /\ filter \in Filters
    /\ byte_order \in {"little", "big"}
    /\ pc = "parse"
    /\ fields = <<>> /\ op = MetaCmp_Eq /\ rval = <<>> /\ init_sym = <<>>
    /\ pos = 1
    /\ type = "void" /\ offt = 0 /\ ops = <<>>
    /\ stored_offset = 0 /\ stored_bf_size = 0 /\ mask = U64Zero
    /\ result = "none" /\ err = "" /\ prog = <<>>
    /\ walked = <<>>
    /\ event = <<>> /\ sections = <<>>
    /\ NotBuilding
    /\ NotQuerying
    /\ NotPrinting

\* return Err(e): the locals are dropped, nothing is handed back
Bail(e) == pc' = "done" /\ result' = "err" /\ err' = e /\ prog' = <<>>
Continue(next) == pc' = next /\ UNCHANGED <<result, err, prog>>

\* from_string:566-577
Parse ==
    /\ pc = "parse"
    /\ \E p \in {parse_filter(filter)} :
         IF ~p.ok
         THEN Bail(p.err) /\ UNCHANGED parsed
         ELSE /\ Continue("root")
              /\ init_sym' = p.val.lhs[1].member
              /\ fields' = Tail(p.val.lhs)
              /\ op' = p.val.op
              /\ rval' = p.val.rhs
    /\ UNCHANGED <<filter, byte_order, raw, printing, user, pos, locals, walked>>

\* from_string:579-587
ResolveRoot ==
    /\ pc = "root"
    /\ \E r \in {resolve_root(init_sym)} :
         IF ~r.ok
         THEN Bail(r.err) /\ UNCHANGED type
         ELSE Continue("walk") /\ type' = r.val
    /\ UNCHANGED <<filter, byte_order, raw, printing, user, parsed, pos, offt, ops, stored_offset,
                   stored_bf_size, mask, walked>>

\* from_string:589-660, one iteration
WalkField ==
    /\ pc = "walk"
    /\ pos <= Len(fields)
    /\ \E w \in {walk_field([type |-> type, offt |-> offt, ops |-> ops,
                             stored_offset |-> stored_offset,
                             stored_bf_size |-> stored_bf_size, mask |-> mask],
                            fields[pos], pos = Len(fields))} :
           /\ type' = w.l.type /\ offt' = w.l.offt /\ ops' = w.l.ops
           /\ stored_offset' = w.l.stored_offset
           /\ stored_bf_size' = w.l.stored_bf_size
           /\ mask' = w.l.mask
           /\ walked' = Append(walked, [ind |-> w.ind, found |-> w.found,
                                        mask |-> fields[pos].mask, from |-> type,
                                        base |-> offt, err |-> w.err])
           /\ IF w.err # ""
              THEN Bail(w.err) /\ UNCHANGED pos
              ELSE /\ pos' = pos + 1
                   /\ Continue(IF pos = Len(fields) THEN "emit_load" ELSE "walk")
    /\ UNCHANGED <<filter, byte_order, raw, printing, user, parsed>>

\* from_string:662-663
EmitLoad ==
    /\ pc = "emit_load"
    /\ \E lmo \in {emit_load(type, stored_offset, stored_bf_size, mask)} :
         IF ~lmo.ok
         THEN Bail(lmo.err) /\ UNCHANGED ops
         ELSE Continue("emit_target") /\ ops' = Append(ops, lmo.val)
    /\ UNCHANGED <<filter, byte_order, raw, printing, user, parsed, pos, type, offt, stored_offset,
                   stored_bf_size, mask, walked>>

\* Rval::from_str panicked: the thread unwinds, from_string returns nothing
Panic == pc' = "done" /\ result' = "panic" /\ err' = "" /\ prog' = <<>>

\* variant of Return that pushes the Target where it inserts it at index 0
Return_pushed(t) ==
    IF ~t.ok
    THEN Bail(t.err) /\ UNCHANGED ops
    ELSE /\ ops' = Append(ops, t.val)
         /\ pc' = "done" /\ result' = "ok" /\ err' = ""
         /\ prog' = Append(ops, t.val)

\* from_string:667-668
Return(t) ==
    IF ~t.ok
    THEN Bail(t.err) /\ UNCHANGED ops
    ELSE /\ ops' = <<t.val>> \o ops
         /\ pc' = "done" /\ result' = "ok" /\ err' = ""
         /\ prog' = <<t.val>> \o ops

\* from_string:665-668
EmitTarget ==
    /\ pc = "emit_target"
    /\ \E rv \in {Rval_from_str(rval)} :
         IF rv.panic
         THEN Panic /\ UNCHANGED ops
         ELSE \E t \in {emit_target(ops[Len(ops)], rv, op, byte_order)} : Return(t)
    /\ UNCHANGED <<filter, byte_order, raw, printing, user, parsed, pos, type, offt, stored_offset,
                   stored_bf_size, mask, walked>>

Next == Parse \/ ResolveRoot \/ WalkField \/ EmitLoad \/ EmitTarget

Spec == Init /\ [][Next]_vars

\* ------------------------------------------------------------------------
\* Properties of from_string
\* ------------------------------------------------------------------------
Accepted == pc = "done" /\ result = "ok"
Terminal(p) == p[Len(p)]
\* the member walk_btf_node found for the last node of the LHS
TerminalMember == walked[Len(walked)].found[1]

\* the filter as written: its operator (the default of a lone LHS is != 0)
FilterTokens == Split(filter, " ")
OpText == IF Len(FilterTokens) = 3 THEN FilterTokens[2] ELSE <<"!", "=">>
OrderingOps == { <<"<">>, <<"<", "=">>, <<">">>, <<">", "=">> }

\* C1: from_string ends with an error and nothing else, or with a complete
\* program (a Target and then Loads); it never panics and never hands back
\* a partially built op vector.
C1_ErrorOrCompleteProgram ==
    pc = "done" =>
        \/ result = "err" /\ prog = <<>>
        \/ /\ result = "ok"
           /\ Len(prog) >= 2
           /\ prog[1].op = "Target"
           /\ \A i \in 2..Len(prog) : prog[i].op = "Load"

\* the pointer Loads of the nodes of a walk that needed one dereference, in
\* the order of the nodes
PointerLoadOf(n) ==
    [op |-> "Load", type |-> PTR_BIT, nmemb |-> 0,
     offt |-> n.found[1].offt \div 8, bf_size |-> 0, mask |-> n.mask]
PointerLoadsOf(w) ==
    With(SelectSeq(w, LAMBDA n : n.ind = 1), LAMBDA ns :
        [i \in 1..Len(ns) |-> PointerLoadOf(ns[i])])

\* C2: an accepted program is [Target, P1..Pk, L]: the Target at index 0, the
\* pointer Loads of the k intermediate nodes that need a dereference in the
\* order of the nodes, then the terminal Load; its length is k + 2 and no
\* Target follows index 0.
C2_ProgramShape ==
    Accepted =>
        /\ prog[1].op = "Target"
        /\ SubSeq(prog, 2, Len(prog) - 1) = PointerLoadsOf(walked)
        /\ Terminal(prog).op = "Load"
        /\ Terminal(prog).mask = walked[Len(walked)].mask
        /\ Terminal(prog).offt \in {TerminalMember.offt, TerminalMember.offt \div 8}
        /\ Len(prog) = Len(PointerLoadsOf(walked)) + 2
        /\ \A i \in 2..Len(prog) : prog[i].op # "Target"

\* an accepted program with two pointer Loads at different offsets
C2_TwoDereferences ==
    Accepted /\ Len(prog) = 4 /\ prog[2].offt # prog[3].offt

\* C3: from_string never returns a program of more than 32 operations.
C3_AtMost32Ops == Accepted => Len(prog) <= META_OPS_MAX

\* C4 as stated: the last element of an accepted program is a non-pointer
\* Load, so that every pointer Load is followed by a further Load.
C4_LastLoadNotPointer ==
    Accepted =>
        /\ Terminal(prog).op = "Load"
        /\ ~is_ptr(Terminal(prog))

\* C4, amended: in an accepted program every pointer Load other than the last
\* element is followed by a further Load, and the last element is a Load
\* that has the pointer bit only when its kind is byte (the terminal member
\* is a pointer to a one-byte integer).
C4_PointerLastOnlyOfBytes ==
    Accepted =>
        /\ \A i \in 2..(Len(prog) - 1) : is_ptr(prog[i]) => prog[i + 1].op = "Load"
        /\ Terminal(prog).op = "Load"
        /\ is_ptr(Terminal(prog)) => is_byte(Terminal(prog))

\* an accepted program whose only Load is a pointer Load
C4_CharPointerTerminal ==
    Accepted /\ Len(prog) = 2 /\ is_ptr(Terminal(prog))

\* C5: when the terminal Load is a pointer or an array, a filter using <, <=,
\* > or >= is rejected, and no accepted program has a Target with cmp in
\* 1..4.
C5_NoOrderingOnStrings ==
    [][(pc = "emit_target" /\ (is_ptr(Terminal(ops)) \/ is_arr(Terminal(ops)))) =>
           /\ OpText \in OrderingOps => result' # "ok"
           /\ result' = "ok" =>
                prog'[1].cmp \notin {MetaCmp_Gt, MetaCmp_Lt, MetaCmp_Ge, MetaCmp_Le}]_vars

\* an ordering operator on a string member, rejected
C5_OrderingRejected ==
    /\ pc = "done" /\ result = "err" /\ err = "wrong comparison operator"
    /\ OpText \in OrderingOps

\* C6: in an accepted program a Load with a nonzero mask is a pointer Load or
\* an unsigned numeric Load; the mask of the terminal node is the mask of the
\* terminal Load; a mask on an intermediate node that emits no pointer Load
\* is rejected.
C6_MaskOnlyOnPointerOrUnsigned ==
    /\ Accepted =>
         /\ \A i \in 2..Len(prog) :
              ~U64IsZero(prog[i].mask) =>
                 \/ is_ptr(prog[i])
                 \/ is_num(prog[i]) /\ ~is_signed(prog[i])
         /\ Terminal(prog).mask = walked[Len(walked)].mask
    /\ (pc = "done" /\ \E j \in 1..Len(walked) :
                          walked[j].ind = 0 /\ ~U64IsZero(walked[j].mask))
         => result = "err"

\* a mask on a member that is neither a pointer nor an unsigned number
C6_MaskRejected ==
    /\ pc = "done" /\ result = "err"
    /\ err = "mask is only supported for pointers and unsigned numeric members"
    /\ ~U64IsZero(mask)

\* C7: the bitfield_size of the terminal Load is the width the type database
\* reports for the terminal member (0 when it reports none), whatever the
\* earlier nodes; the offset is the member's bit offset when bitfield_size > 0
\* and that bit offset divided by 8 otherwise.
C7_TerminalBitfield ==
    Accepted =>
        /\ Terminal(prog).bf_size =
              (IF IsSome(TerminalMember.bfs) THEN Unwrap(TerminalMember.bfs) ELSE 0)
        /\ Terminal(prog).offt =
              (IF Terminal(prog).bf_size > 0 THEN TerminalMember.offt
               ELSE TerminalMember.offt \div 8)

\* C8: every Load with nmemb > 0, and every terminal Load with the pointer
\* bit, has kind byte.
C8_ArrayOrPointerOnlyOfBytes ==
    Accepted =>
        /\ \A i \in 2..Len(prog) : is_arr(prog[i]) => is_byte(prog[i])
        /\ is_ptr(Terminal(prog)) => is_byte(Terminal(prog))

\* a quoted string: the same quote at both ends, around the content
IsQuoted(r) == Len(r) >= 2 /\ r[1] = r[Len(r)] /\ r[1] \in {"'", "\""}
QuotedContent(r) == [i \in 1..(Len(r) - 2) |-> r[i + 1]]

\* C9: for a pointer or char array terminal Load and == or !=, the filter is
\* accepted iff the RHS is a quoted string of at most 31 bytes; then the
\* Target's size is the length of the string, its first bytes are the quoted
\* content and the bytes up to 32 are zero.
C9_StringTarget ==
    [][(/\ pc = "emit_target"
        /\ is_ptr(Terminal(ops)) \/ (is_arr(Terminal(ops)) /\ is_byte(Terminal(ops)))
        /\ OpText \in {<<"=", "=">>, <<"!", "=">>}) =>
           /\ result' = "ok" <=>
                (IsQuoted(rval) /\ Len(QuotedContent(rval)) <= META_TARGET_MAX - 1)
           /\ result' = "ok" =>
                /\ prog'[1].sz = Len(QuotedContent(rval))
                /\ Len(prog'[1].md) = META_TARGET_MAX
                /\ SubSeq(prog'[1].md, 1, prog'[1].sz) = QuotedContent(rval)
                /\ \A i \in (prog'[1].sz + 1)..META_TARGET_MAX : prog'[1].md[i] = 0]_vars

\* the longest string a Target holds, accepted
C9_LongestStringAccepted ==
    /\ Accepted /\ prog[1].sz = META_TARGET_MAX - 1
    /\ is_arr(Terminal(prog)) /\ is_byte(Terminal(prog))

\* the values of the numbers from_string is given, as the eight bytes of a
\* 64-bit word, least significant first
ValueBytes(r) ==
    CASE r = <<"0">> -> Rep(0, 8)
      [] r = <<"1">> -> <<1>> \o Rep(0, 7)
      [] r = <<"+", "5">> -> <<5>> \o Rep(0, 7)
      [] r = <<"0", "x", "c", "0", "d", "e">> -> <<222, 192>> \o Rep(0, 6)
      [] r = <<"0", "x", "0", "x", "1", "0">> -> <<16>> \o Rep(0, 7)
      [] r = <<"0", "x", "+", "f">> -> <<15>> \o Rep(0, 7)
      [] r = <<"4", "2", "9", "4", "9", "6", "7", "2", "9", "6">> ->
             Rep(0, 4) \o <<1>> \o Rep(0, 3)
      [] r = <<"-", "1">> -> Rep(255, 8)
      [] r = <<"0", "x">> \o Rep("f", 16) -> Rep(255, 8)
      [] r = <<"1", "8", "4", "4", "6", "7", "4", "4", "0", "7", "3", "7", "0", "9",
               "5", "5", "1", "6", "1", "5">> -> Rep(255, 8)
      [] r = <<"-", "9", "2", "2", "3", "3", "7", "2", "0", "3", "6", "8", "5", "4",
               "7", "7", "5", "8", "0", "8">> -> Rep(0, 7) \o <<128>>
      [] OTHER -> <<>>

\* a 64-bit word in the byte order of the host
HostOrder(v) == [i \in 1..8 |-> IF byte_order = "little" THEN v[i] ELSE v[9 - i]]

OpCode(text) ==
    CASE text = <<"=", "=">> -> 0
      [] text = <<">">> -> 1
      [] text = <<"<">> -> 2
      [] text = <<">", "=">> -> 3
      [] text = <<"<", "=">> -> 4
      [] text = <<"!", "=">> -> 5

\* C10: for a numeric terminal Load and an accepted RHS value v, the Target
\* holds the 64-bit encoding of v in the byte order of the host in its first
\* 8 bytes and zeroes in the other 24, its size is 1, 2, 4 or 8 for the kinds
\* byte, short, int and long, and its cmp is the code of the operator.
C10_NumericTarget ==
    [][(/\ pc = "emit_target"
        /\ is_num(Terminal(ops)) /\ ~is_ptr(Terminal(ops)) /\ ~is_arr(Terminal(ops))
        /\ result' = "ok") =>
           /\ prog'[1].md = HostOrder(ValueBytes(rval)) \o Rep(0, META_TARGET_MAX - 8)
           /\ prog'[1].sz = <<1, 2, 4, 8>>[BitAnd(Terminal(ops).type, 31)]
           /\ prog'[1].cmp = OpCode(OpText)]_vars

\* 0xc0de as the target of a 4-byte member, on a big-endian host
C10_BigEndianTarget ==
    /\ Accepted /\ byte_order = "big"
    /\ prog[1].sz = 4 /\ prog[1].md[7] = 192 /\ prog[1].md[8] = 222

\* ------------------------------------------------------------------------
\* The numbers of the grammar, read off the text
\* ------------------------------------------------------------------------
DecDigits == {"0", "1", "2", "3", "4", "5", "6", "7", "8", "9"}
HexDigits == DecDigits \cup {"a", "b", "c", "d", "e", "f", "A", "B", "C", "D", "E", "F"}
BinDigits == {"0", "1"}
\* a non-empty run of the digits ds
IsDigits(s, ds) == Len(s) >= 1 /\ \A i \in 1..Len(s) : s[i] \in ds

RECURSIVE StripZeros(_)
StripZeros(s) == IF Len(s) >= 1 /\ s[1] = "0" THEN StripZeros(Tail(s)) ELSE s

\* the order of two decimal digits
DecLt(a, b) ==
    \E i, j \in 1..10 : /\ i < j
                        /\ <<"0", "1", "2", "3", "4", "5", "6", "7", "8", "9">>[i] = a
                        /\ <<"0", "1", "2", "3", "4", "5", "6", "7", "8", "9">>[j] = b

\* a <= b for two runs of decimal digits of the same length
RECURSIVE DigitsLeq(_, _)
DigitsLeq(a, b) ==
    IF Len(a) = 0 THEN TRUE
    ELSE IF a[1] = b[1] THEN DigitsLeq(Tail(a), Tail(b))
    ELSE DecLt(a[1], b[1])

\* the decimal number s is at most the decimal number max
DecAtMost(s, max) ==
    \/ Len(StripZeros(s)) < Len(max)
    \/ Len(StripZeros(s)) = Len(max) /\ DigitsLeq(StripZeros(s), max)

\* 2^64 - 1 and 2^63
U64MaxDec == <<"1", "8", "4", "4", "6", "7", "4", "4", "0", "7", "3", "7", "0", "9",
               "5", "5", "1", "6", "1", "5">>
I64MinDec == <<"9", "2", "2", "3", "3", "7", "2", "0", "3", "6", "8", "5", "4", "7",
               "7", "5", "8", "0", "8">>

\* a decimal literal that fits an unsigned 64-bit value
IsU64Dec(r) == IsDigits(r, DecDigits) /\ DecAtMost(r, U64MaxDec)
\* a hex literal that fits an unsigned 64-bit value
IsU64Hex(r) ==
    /\ Len(r) >= 3 /\ r[1] = "0" /\ r[2] = "x"
    /\ IsDigits(SubSeq(r, 3, Len(r)), HexDigits)
    /\ Len(StripZeros(SubSeq(r, 3, Len(r)))) <= 16
\* a negative decimal literal that fits a signed 64-bit value
IsI64NegDec(r) ==
    /\ Len(r) >= 2 /\ r[1] = "-"
    /\ IsDigits(Tail(r), DecDigits) /\ DecAtMost(Tail(r), I64MinDec)

\* the terminal Load emit_target is about to be given is a plain number
NumericTerminal ==
    /\ pc = "emit_target"
    /\ is_num(Terminal(ops)) /\ ~is_ptr(Terminal(ops)) /\ ~is_arr(Terminal(ops))

\* C11: for a numeric terminal Load the RHS is accepted or not by its sign
\* and by fitting 64 bits, whatever the width of the Load: a negative decimal
\* (of the signed 64-bit range) is rejected iff the Load is unsigned, a quoted
\* string is rejected, a non-negative decimal or hex literal that fits an
\* unsigned 64-bit value is accepted, a decimal that does not fit 64 bits is
\* rejected.
C11_NumericRhsAcceptance ==
    [][NumericTerminal =>
           /\ IsI64NegDec(rval) => (result' = "err" <=> ~is_signed(Terminal(ops)))
           /\ IsI64NegDec(rval) => (result' = "ok" <=> is_signed(Terminal(ops)))
           /\ IsQuoted(rval) => result' = "err"
           /\ (IsU64Dec(rval) \/ IsU64Hex(rval)) => result' = "ok"
           /\ (IsDigits(rval, DecDigits) /\ ~IsU64Dec(rval)) => result' = "err"
           /\ (Len(rval) >= 2 /\ rval[1] = "-" /\ IsDigits(Tail(rval), DecDigits)
                 /\ ~IsI64NegDec(rval)) => result' = "err"]_vars

\* 4294967296 accepted against a 4-byte member
C11_BeyondFieldRange ==
    /\ Accepted /\ prog[1].sz = 4
    /\ rval = <<"4", "2", "9", "4", "9", "6", "7", "2", "9", "6">>

\* a filter made of the LHS alone
BareLhs == Len(FilterTokens) = 1
\* what parse_filter gives for the bare LHS written out as LHS != 0
WrittenOut == parse_filter(filter \o <<" ", "!", "=", " ", "0">>)

\* C12: a bare LHS compiles as LHS != 0: parse_filter gives for it what it
\* gives for LHS != 0; it is accepted when the terminal Load is a number, with
\* a Target of cmp = ne and 32 zero bytes, and rejected when the walk ends on a
\* pointer, an array or a record.
C12_BareLhs ==
    [][BareLhs =>
           /\ pc = "parse" =>
                IF WrittenOut.ok
                THEN /\ result' = "none"
                     /\ init_sym' = WrittenOut.val.lhs[1].member
                     /\ fields' = Tail(WrittenOut.val.lhs)
                     /\ op' = WrittenOut.val.op /\ op' = MetaCmp_Ne
                     /\ rval' = WrittenOut.val.rhs /\ rval' = <<"0">>
                ELSE result' = "err" /\ err' = WrittenOut.err
           /\ NumericTerminal =>
                /\ result' = "ok"
                /\ prog'[1].cmp = MetaCmp_Ne
                /\ prog'[1].md = Rep(0, META_TARGET_MAX)
           /\ (pc = "emit_target" /\ ~NumericTerminal) => result' = "err"
           /\ (pc = "emit_load" /\ Kind(type) \in {"Struct", "Union"}) => result' = "err"]_vars

\* a bare LHS ending on a bitfield, accepted
C12_BareBitfield ==
    Accepted /\ BareLhs /\ Terminal(prog).bf_size > 0

\* the shape of a filter, read off its text: the dot-separated nodes of its
\* first token and the colon-separated parts of each
LhsNodes == Split(FilterTokens[1], ".")
KnownOps == { <<"=", "=">>, <<"!", "=">>, <<"<">>, <<"<", "=">>, <<">">>, <<">", "=">> }
WellShaped ==
    /\ Len(FilterTokens) \in {1, 3}
    /\ Len(FilterTokens) = 3 => FilterTokens[2] \in KnownOps
    /\ Len(LhsNodes) >= 2
    /\ Split(LhsNodes[1], ":") = << <<"sk_buff">> >>
    /\ \A i \in 1..Len(LhsNodes) : Len(Split(LhsNodes[i], ":")) <= 3

\* C13: a filter is rejected before any type lookup unless it splits on
\* single spaces into 1 or 3 tokens, its operator is one of the six known,
\* its LHS has at least 2 nodes, its first node is sk_buff alone and no node
\* has more than three colon-separated parts.
C13_ShapeChecked ==
    [][(pc = "parse" /\ ~WellShaped) =>
           /\ pc' = "done" /\ result' = "err"
           /\ type' = "void" /\ walked' = <<>> /\ ops' = <<>>]_vars

\* a filter of another shape, rejected with no type looked up
C13_RejectedAtParse ==
    /\ pc = "done" /\ result = "err" /\ ~WellShaped
    /\ type = "void" /\ walked = <<>>

\* ------------------------------------------------------------------------
\* The masks of a filter, read off its text
\* ------------------------------------------------------------------------
\* the colon-separated parts of node i of the LHS
NodeParts(i) == Split(LhsNodes[i], ":")
HasMask(i) == Len(NodeParts(i)) >= 2
MaskText(i) == NodeParts(i)[2]
Complemented(t) == Len(t) >= 1 /\ t[1] = "~"
\* the mask without its ~
MaskBody(t) == IF Complemented(t) THEN Tail(t) ELSE t
MaskBase(b) ==
    IF Len(b) >= 2 /\ b[1] = "0" /\ b[2] = "x" THEN 16
    ELSE IF Len(b) >= 2 /\ b[1] = "0" /\ b[2] = "b" THEN 2
    ELSE 10
\* the number after the prefix of the base, and its digits after the sign an
\* integer may be written with
MaskNumber(b) == IF MaskBase(b) = 10 THEN b ELSE SubSeq(b, 3, Len(b))
MaskDigits(b) ==
    IF Len(MaskNumber(b)) >= 1 /\ MaskNumber(b)[1] = "+" THEN Tail(MaskNumber(b))
    ELSE MaskNumber(b)
\* the digits are digits of the base
MaskParses(b) ==
    IsDigits(MaskDigits(b),
             IF MaskBase(b) = 16 THEN HexDigits
             ELSE IF MaskBase(b) = 2 THEN BinDigits ELSE DecDigits)
MaskFits(b) ==
    IF MaskBase(b) = 16 THEN Len(StripZeros(MaskDigits(b))) <= 16
    ELSE IF MaskBase(b) = 2 THEN Len(StripZeros(MaskDigits(b))) <= 64
    ELSE DecAtMost(MaskDigits(b), U64MaxDec)
MaskIsZero(b) == StripZeros(MaskDigits(b)) = <<>>
MaskIsAllOnes(b) ==
    IF MaskBase(b) = 16
    THEN /\ Len(StripZeros(MaskDigits(b))) = 16
         /\ \A i \in 1..16 : StripZeros(MaskDigits(b))[i] \in {"f", "F"}
    ELSE IF MaskBase(b) = 2
    THEN Len(StripZeros(MaskDigits(b))) = 64 /\ "0" \notin
             {StripZeros(MaskDigits(b))[i] : i \in 1..64}
    ELSE StripZeros(MaskDigits(b)) = U64MaxDec
\* parse_mask is to return an error for the mask t
MaskRefused(t) ==
    \/ ~MaskParses(MaskBody(t))
    \/ ~MaskFits(MaskBody(t))
    \/ IF Complemented(t) THEN MaskIsAllOnes(MaskBody(t)) ELSE MaskIsZero(MaskBody(t))

\* the values of the masks from_string is given, least significant byte first
MaskBodyBytes(b) ==
    CASE b \in { <<"0", "x", "f", "f">>, <<"2", "5", "5">>, <<"0", "x", "+", "f", "f">> } ->
             <<255>> \o Rep(0, 7)
      [] b \in { <<"0", "x", "0">>, <<"0", "x", "0", "0">> } -> Rep(0, 8)
      [] b \in { <<"0", "b", "1", "0">>, <<"0", "x", "2">> } -> <<2>> \o Rep(0, 7)
      [] b = <<"0", "x", "b", "a", "d">> -> <<173, 11>> \o Rep(0, 6)
      [] OTHER -> <<>>
MaskBytes(t) ==
    IF Complemented(t) THEN [i \in 1..8 |-> 255 - MaskBodyBytes(MaskBody(t))[i]]
    ELSE MaskBodyBytes(MaskBody(t))

\* C14: parse_mask returns the value of a mask written 0x<hex>, 0b<bin> or
\* decimal, complemented on 64 bits when it is prefixed by ~; it returns an
\* error iff the digits do not parse in the base, the value does not fit 64
\* bits, or the result is 0.
C14_ParseMask ==
    [][(pc = "parse" /\ WellShaped) =>
           /\ result' = "err" <=> \E i \in 2..Len(LhsNodes) :
                                     HasMask(i) /\ MaskRefused(MaskText(i))
           /\ result' = "err" => err' \in {"invalid mask", "mask cannot be zero"}
           /\ result' # "err" =>
                \A i \in 2..Len(LhsNodes) :
                    fields'[i - 1].mask =
                        (IF HasMask(i) THEN MaskBytes(MaskText(i)) ELSE Rep(0, 8))]_vars

\* the complement of 0b10 as the mask of a node
C14_ComplementedMask ==
    /\ pc # "parse"
    /\ \E i \in 1..Len(fields) : fields[i].mask = <<253>> \o Rep(255, 7)

\* ------------------------------------------------------------------------
\* The node the walk is at, and the cast it carries
\* ------------------------------------------------------------------------
WalkStep == pc = "walk" /\ pos <= Len(fields)
HasCast == IsSome(fields[pos].tgt_type)
CastName == Unwrap(fields[pos].tgt_type)
\* what the step recorded: the member walk_btf_node found for the node
Walked == Terminal(walked')
MemberType == BtfTypes[Unwrap(Walked.found).ty]

\* a type with its typedefs and qualifiers taken off
RECURSIVE Unalias(_)
Unalias(t) == IF BtfTypes[t].kind \in Transparent THEN Unalias(BtfTypes[t].type) ELSE t

\* the types of a name that are a Struct, a Union or a Typedef
CastCandidates(name) ==
    IF name \in DOMAIN BtfNames
    THEN { BtfNames[name][i] : i \in { j \in 1..Len(BtfNames[name]) :
              BtfTypes[BtfNames[name][j]].kind \in {"Struct", "Union", "Typedef"} } }
    ELSE {}

\* C15: a cast is rejected on the last node, on a member that is an array or
\* a scalar smaller than a pointer, when its type name resolves to no Struct,
\* Union or Typedef, and when the type it names is not a record once its
\* typedefs are taken off (a typedef of an integer or of a pointer).
C15_CastRejected ==
    [][(WalkStep /\ HasCast) =>
           /\ pos = Len(fields) => result' = "err"
           /\ (IsSome(Walked.found) /\ MemberType.kind = "Array") => result' = "err"
           /\ (IsSome(Walked.found) /\ MemberType.kind = "Int" /\ MemberType.size < PtrSize)
                 => result' = "err"
           /\ (IsSome(Walked.found) /\ MemberType.kind \in {"Enum", "Enum64", "Float"})
                 => result' = "err"
           /\ CastCandidates(CastName) = {} => result' = "err"
           /\ (\E t \in CastCandidates(CastName) :
                   BtfTypes[Unalias(t)].kind \notin {"Struct", "Union"}) => result' = "err"]_vars

\* a cast to a typedef of a pointer, rejected
C15_PointerAliasRejected ==
    /\ pc = "done" /\ result = "err"
    /\ err = "cast type cannot be an alias to a pointer"

\* the type a cast name stands for: the first Struct, Union or Typedef of the
\* name
CastType(name) ==
    BtfNames[name][CHOOSE j \in 1..Len(BtfNames[name]) :
        /\ BtfNames[name][j] \in CastCandidates(name)
        /\ \A k \in 1..(j - 1) : BtfNames[name][k] \notin CastCandidates(name)]

\* C16: for an intermediate node m:mask:T, with m declared as a pointer or as
\* a pointer-sized integer at bit offset b (b/8 within 16 bits) and T a
\* record R, the step emits exactly one pointer Load {PTR_BIT, nmemb 0,
\* offset b/8, bitfield_size 0, the mask} and goes on inside R with the
\* running offset at 0.
C16_CastStep ==
    [][(/\ WalkStep /\ HasCast /\ pos < Len(fields)
        /\ IsSome(Walked.found)
        /\ \/ MemberType.kind = "Ptr"
           \/ MemberType.kind = "Int" /\ MemberType.size = PtrSize
        /\ Unwrap(Walked.found).offt \div 8 <= U16Max
        /\ CastCandidates(CastName) # {}
        /\ BtfTypes[Unalias(CastType(CastName))].kind \in {"Struct", "Union"}) =>
           /\ pc' = "walk" /\ result' = "none"
           /\ ops' = Append(ops, [op |-> "Load", type |-> PTR_BIT, nmemb |-> 0,
                                  offt |-> Unwrap(Walked.found).offt \div 8,
                                  bf_size |-> 0, mask |-> fields[pos].mask])
           /\ type' = Unalias(CastType(CastName))
           /\ offt' = 0]_vars

\* sk_buff._nfct cast to a record: the pointer Load at byte 104, the walk
\* going on
C16_CastLoadEmitted ==
    /\ pc = "walk" /\ pos = 2 /\ IsSome(fields[1].tgt_type)
    /\ Len(ops) = 1 /\ ops[1].offt = 104 /\ ops[1].type = PTR_BIT /\ offt = 0

\* the pointers a type goes through, its typedefs and qualifiers taken off
RECURSIVE PtrDepth(_)
PtrDepth(t) ==
    IF BtfTypes[t].kind = "Ptr" THEN 1 + PtrDepth(BtfTypes[t].type)
    ELSE IF BtfTypes[t].kind \in Transparent THEN PtrDepth(BtfTypes[t].type)
    ELSE 0

\* C17: an intermediate node whose member type goes through two or more
\* pointers is rejected, with or without a cast: no run that walked such a
\* node ends with a program.
C17_OneIndirectionPerStep ==
    pc = "done" =>
        \A j \in 1..(Len(walked) - 1) :
            (IsSome(walked[j].found) /\ PtrDepth(Unwrap(walked[j].found).ty) >= 2)
                => result = "err"

\* ------------------------------------------------------------------------
\* The memory layout of a MetaOp (repr(C)) and the map that holds them
\* ------------------------------------------------------------------------
Field(name, size, align) == [name |-> name, size |-> size, align |-> align]
\* struct MetaTarget: md: [u8; META_TARGET_MAX], sz: u8, cmp: u8
MetaTargetFields ==
    << Field("md", META_TARGET_MAX, 1), Field("sz", 1, 1), Field("cmp", 1, 1) >>
\* struct MetaLoad: type: u8, nmemb: u8, offt: u16, bf_size: u8, mask: u64
MetaLoadFields ==
    << Field("type", 1, 1), Field("nmemb", 1, 1), Field("offt", 2, 2),
       Field("bf_size", 1, 1), Field("mask", 8, 8) >>

\* variant of AlignUp that packs the fields with no padding
AlignUp_packed(n, a) == n

\* n rounded up to a multiple of a
AlignUp(n, a) == ((n + a - 1) \div a) * a

\* repr(C): the offset of field i, each field at the next multiple of its
\* alignment after the field before it
RECURSIVE OffsetOfField(_, _)
OffsetOfField(fs, i) ==
    IF i = 1 THEN 0
    ELSE AlignUp(OffsetOfField(fs, i - 1) + fs[i - 1].size, fs[i].align)

offset_of(fs, name) ==
    OffsetOfField(fs, CHOOSE i \in 1..Len(fs) : fs[i].name = name)

RECURSIVE MaxOf(_)
MaxOf(s) == IF Len(s) = 1 THEN s[1]
            ELSE IF s[1] >= MaxOf(Tail(s)) THEN s[1] ELSE MaxOf(Tail(s))

\* the alignment of a struct: that of its fields, or the one align(n) asks for
align_of(fs, min_align) ==
    MaxOf(<<min_align>> \o [i \in 1..Len(fs) |-> fs[i].align])

\* repr(C): the size of a struct, a multiple of its alignment
size_of(fs, min_align) ==
    AlignUp(OffsetOfField(fs, Len(fs)) + fs[Len(fs)].size,
            align_of(fs, min_align))

\* #[repr(C, align(8))] struct MetaTarget, #[repr(C)] struct MetaLoad
MetaTarget_align == align_of(MetaTargetFields, 8)
MetaTarget_size == size_of(MetaTargetFields, 8)
MetaLoad_align == align_of(MetaLoadFields, 1)
MetaLoad_size == size_of(MetaLoadFields, 1)
\* #[repr(C)] union MetaOp { l: MetaLoad, t: MetaTarget }
MetaOp_align == MaxOf(<<MetaLoad_align, MetaTarget_align>>)
MetaOp_size == AlignUp(MaxOf(<<MetaLoad_size, MetaTarget_size>>), MetaOp_align)

\* bytes with the bytes of a field written at byte offset `at`
WriteAt(bytes, at, fb) ==
    [i \in 1..Len(bytes) |-> IF i > at /\ i <= at + Len(fb) THEN fb[i - at] ELSE bytes[i]]

\* u16::to_ne_bytes
u16_ne_bytes(v, order) ==
    IF order = "little" THEN <<v % 256, v \div 256>> ELSE <<v \div 256, v % 256>>

\* a MetaOp as the bytes of one map value (Plain): the zeroed union with the
\* fields of the shape written at their offsets
MetaOp_bytes(o, order) ==
    IF o.op = "Target"
    THEN WriteAt(WriteAt(WriteAt(Rep(0, MetaOp_size),
             offset_of(MetaTargetFields, "md"), o.md),
             offset_of(MetaTargetFields, "sz"), <<o.sz>>),
             offset_of(MetaTargetFields, "cmp"), <<o.cmp>>)
    ELSE WriteAt(WriteAt(WriteAt(WriteAt(WriteAt(Rep(0, MetaOp_size),
             offset_of(MetaLoadFields, "type"), <<o.type>>),
             offset_of(MetaLoadFields, "nmemb"), <<o.nmemb>>),
             offset_of(MetaLoadFields, "offt"), u16_ne_bytes(o.offt, order)),
             offset_of(MetaLoadFields, "bf_size"), <<o.bf_size>>),
             offset_of(MetaLoadFields, "mask"), to_ne_bytes(o.mask, order))

\* init_meta_map: the parameters of the map created
init_meta_map ==
    [map_type |-> "Array", name |-> "filter_meta_map",
     key_size |-> 4, value_size |-> MetaOp_size, max_entries |-> META_OPS_MAX]

\* the bytes of a u16 and of a u64 in the byte order of the host, written out
HostU16(v) == IF byte_order = "little" THEN <<v % 256, v \div 256>>
              ELSE <<v \div 256, v % 256>>

\* C18: both shapes of a MetaOp occupy one record of 40 bytes aligned to 8
\* (Target: the 32-byte buffer at 0, size at 32, cmp at 33; Load: type at 0,
\* nmemb at 1, offset at 2, bitfield_size at 4, mask at 8), and the map of
\* init_meta_map has 4-byte keys, values of that size and 32 entries.
C18_RecordLayout ==
    /\ MetaOp_size = 40 /\ MetaOp_align = 8
    /\ init_meta_map.key_size = 4
    /\ init_meta_map.value_size = 40
    /\ init_meta_map.max_entries = 32
    /\ Accepted =>
         \A i \in 1..Len(prog) :
            /\ Len(MetaOp_bytes(prog[i], byte_order)) = 40
            /\ IF i = 1
               THEN /\ SubSeq(MetaOp_bytes(prog[i], byte_order), 1, 32) = prog[i].md
                    /\ MetaOp_bytes(prog[i], byte_order)[33] = prog[i].sz
                    /\ MetaOp_bytes(prog[i], byte_order)[34] = prog[i].cmp
                    /\ \A k \in 35..40 : MetaOp_bytes(prog[i], byte_order)[k] = 0
               ELSE /\ MetaOp_bytes(prog[i], byte_order)[1] = prog[i].type
                    /\ MetaOp_bytes(prog[i], byte_order)[2] = prog[i].nmemb
                    /\ SubSeq(MetaOp_bytes(prog[i], byte_order), 3, 4) = HostU16(prog[i].offt)
                    /\ MetaOp_bytes(prog[i], byte_order)[5] = prog[i].bf_size
                    /\ SubSeq(MetaOp_bytes(prog[i], byte_order), 9, 16) = HostOrder(prog[i].mask)
                    /\ \A k \in (6..8) \cup (17..40) : MetaOp_bytes(prog[i], byte_order)[k] = 0

\* a program whose terminal Load has a two-byte offset and a mask
C18_MaskedBitfieldLoad ==
    /\ Accepted /\ Terminal(prog).offt = 1024 /\ Terminal(prog).bf_size = 3
    /\ MetaOp_bytes(Terminal(prog), byte_order)[IF byte_order = "little" THEN 9 ELSE 16] = 2


\* ------------------------------------------------------------------------
\* C19: the grammar of filters
\* ------------------------------------------------------------------------
\* characters that cannot be part of an identifier
Punctuation ==
    {".", ":", " ", "~", "+", "-", "'", "\"", "=", "<", ">", "!"}
\* ident: non-empty, no punctuation, not starting with a digit
GIdent(t) ==
    /\ Len(t) >= 1
    /\ t[1] \notin DecDigits
    /\ \A i \in 1..Len(t) : t[i] \notin Punctuation
\* "0x" hex+ and "0b" [01]+
GPrefixed(t, p, ds) ==
    /\ Len(t) >= 3 /\ t[1] = "0" /\ t[2] = p
    /\ IsDigits(SubSeq(t, 3, Len(t)), ds)
\* mask := ("~")? ("0x" hex+ | "0b" [01]+ | digit+)
GMask(t) ==
    \/ GPrefixed(MaskBody(t), "x", HexDigits)
    \/ GPrefixed(MaskBody(t), "b", BinDigits)
    \/ IsDigits(MaskBody(t), DecDigits)
\* node := ident (":" mask (":" ident)?)?
GNode(t) ==
    /\ Len(Split(t, ":")) \in 1..3
    /\ GIdent(Split(t, ":")[1])
    /\ Len(Split(t, ":")) >= 2 => GMask(Split(t, ":")[2])
    /\ Len(Split(t, ":")) = 3 => GIdent(Split(t, ":")[3])
\* lhs := "sk_buff" ("." node)+
GLhs(t) ==
    /\ Len(Split(t, ".")) >= 2
    /\ Split(t, ".")[1] = <<"sk_buff">>
    /\ \A i \in 2..Len(Split(t, ".")) : GNode(Split(t, ".")[i])
\* rhs := quoted | "0x" hex+ | "-"? digit+
GRhs(t) ==
    \/ IsQuoted(t)
    \/ GPrefixed(t, "x", HexDigits)
    \/ IsDigits(t, DecDigits)
    \/ Len(t) >= 2 /\ t[1] = "-" /\ IsDigits(Tail(t), DecDigits)
\* filter := lhs SP op SP rhs | lhs
GFilter(t) ==
    \/ GLhs(t)
    \/ /\ Len(Split(t, " ")) = 3
       /\ GLhs(Split(t, " ")[1])
       /\ Split(t, " ")[2] \in KnownOps
       /\ GRhs(Split(t, " ")[3])

\* C19: every filter from_string accepts is derivable from the grammar:
\* node names are non-empty identifiers, a mask is an optional ~ and 0x + hex
\* digits, 0b + binary digits or decimal digits, a numeric RHS is 0x + hex
\* digits or an optional - and decimal digits.
C19_AcceptedIsDerivable == Accepted => GFilter(filter)

\* the three shapes the grammar excludes are rejected (each is violated)
C19_LeadingPlusRejected ==
    ~(Accepted /\ Len(FilterTokens) = 3 /\ FilterTokens[3] = <<"+", "5">>)
C19_RepeatedPrefixRejected ==
    ~(Accepted /\ Len(FilterTokens) = 3
        /\ FilterTokens[3] = <<"0", "x", "0", "x", "1", "0">>)
C19_EmptyNameRejected ==
    ~(Accepted /\ \E i \in 2..Len(LhsNodes) : NodeParts(i)[1] = <<>>)


\* ------------------------------------------------------------------------
\* Raw event sections (benchmark/helpers.rs)
\* ------------------------------------------------------------------------
MaxSections == 2
U16Mod == 65536

\* struct BpfRawSectionHeader: owner: u8, data_type: u8, size: u16
BpfRawSectionHeaderFields ==
    << Field("owner", 1, 1), Field("data_type", 1, 1), Field("size", 2, 2) >>
BpfRawSectionHeader_size == size_of(BpfRawSectionHeaderFields, 1)

\* variant of as_u16 that keeps the length whole
as_u16_wide(n) == n

\* `n as u16`: the low 16 bits
as_u16(n) == n % U16Mod

\* as_u8_vec(&header): the size_of::<T>() bytes of the header as the host
\* holds them
as_u8_vec(header, order) ==
    WriteAt(WriteAt(WriteAt(Rep(0, BpfRawSectionHeader_size),
        offset_of(BpfRawSectionHeaderFields, "owner"), <<header.owner>>),
        offset_of(BpfRawSectionHeaderFields, "data_type"), <<header.data_type>>),
        offset_of(BpfRawSectionHeaderFields, "size"), u16_ne_bytes(header.size, order))

\* build_raw_section: the event after the call (data is left empty)
build_raw_section(ev, owner, data_type, data, order) ==
    ev \o as_u8_vec([owner |-> owner, data_type |-> data_type,
                     size |-> as_u16(Len(data))], order)
       \o data

\* the sections the calls are made with
Owners == {1, 2}
DataTypes == {3}
Payloads ==
    { <<>>, <<9>>, <<0, 1, 0, 0, 7>>, Rep(255, U16Mod - 1), Rep(255, U16Mod) }

\* no filter is being compiled while sections are built
InitRaw ==
    /\ filter = <<>>
    /\ byte_order \in {"little", "big"}
    /\ pc = "done"
    /\ fields = <<>> /\ op = MetaCmp_Eq /\ rval = <<>> /\ init_sym = <<>>
    /\ pos = 1
    /\ type = "void" /\ offt = 0 /\ ops = <<>>
    /\ stored_offset = 0 /\ stored_bf_size = 0 /\ mask = U64Zero
    /\ result = "none" /\ err = "" /\ prog = <<>>
    /\ walked = <<>>
    /\ event = <<>> /\ sections = <<>>
    /\ NotBuilding
    /\ NotQuerying
    /\ NotPrinting

\* one call of build_raw_section
BuildRawSection ==
    /\ Len(sections) < MaxSections
    /\ \E owner \in Owners, data_type \in DataTypes, data \in Payloads :
         /\ event' = build_raw_section(event, owner, data_type, data, byte_order)
         /\ sections' = Append(sections, [owner |-> owner, data_type |-> data_type,
                                          data |-> data])
    /\ UNCHANGED <<filter, byte_order, pc, parsed, pos, locals, result, err, prog,
                   walked, builder, raw_event, printing, user>>

NextRaw == BuildRawSection

SpecRaw == InitRaw /\ [][NextRaw]_vars

\* ------------------------------------------------------------------------
\* C20: sections of a raw event
\* ------------------------------------------------------------------------
\* a u16 read from two bytes in the byte order of the host
ReadU16(b) == IF byte_order = "little" THEN b[1] + 256 * b[2] ELSE 256 * b[1] + b[2]

\* the buffer read header by header: the sections found, and whether the
\* walk ended at the end of the buffer
RECURSIVE WalkSections(_)
WalkSections(buf) ==
    IF Len(buf) = 0 THEN [ok |-> TRUE, secs |-> <<>>]
    ELSE IF Len(buf) < 4 \/ Len(buf) < 4 + ReadU16(SubSeq(buf, 3, 4))
    THEN [ok |-> FALSE, secs |-> <<>>]
    ELSE With(WalkSections(SubSeq(buf, 5 + ReadU16(SubSeq(buf, 3, 4)), Len(buf))),
              LAMBDA r :
                [ok |-> r.ok,
                 secs |-> << [owner |-> buf[1], data_type |-> buf[2],
                              data |-> SubSeq(buf, 5, 4 + ReadU16(SubSeq(buf, 3, 4)))] >>
                          \o r.secs])

\* C20: a call leaves the bytes already in the event unchanged and appends
\* 4 header bytes (owner, data_type, size in the byte order of the host) and
\* the payload, the size being the length of the payload; so the buffer read
\* header by header gives back the sections appended, in order, and ends at
\* its end.
C20_SectionsRecovered ==
    /\ WalkSections(event).ok
    /\ WalkSections(event).secs = sections

C20_AppendOnly ==
    [][sections' # sections =>
         With(sections'[Len(sections')], LAMBDA s :
            /\ SubSeq(event', 1, Len(event)) = event
            /\ Len(event') = Len(event) + 4 + Len(s.data)
            /\ event'[Len(event) + 1] = s.owner
            /\ event'[Len(event) + 2] = s.data_type
            /\ SubSeq(event', Len(event) + 5, Len(event')) = s.data)]_vars

\* as long as every payload is shorter than 2^16 bytes the sections are
\* recovered
C20_ShortPayloadsRecovered ==
    (\A i \in 1..Len(sections) : Len(sections[i].data) < U16Mod) =>
        /\ WalkSections(event).ok
        /\ WalkSections(event).secs = sections

\* two sections, the first with the longest payload the size field holds
C20_TwoSections ==
    /\ Len(sections) = 2
    /\ Len(sections[1].data) = U16Mod - 1
    /\ WalkSections(event).secs = sections


\* ------------------------------------------------------------------------
\* build_raw_event (benchmark/helpers.rs)
\* ------------------------------------------------------------------------
\* the size of the data of a raw event
BPF_RAW_EVENT_DATA_SIZE == 1022

\* the section builders build_raw_event calls, in the order it calls them
Builders ==
    << "RawCommonEvent", "RawTaskEvent", "RawKernelEvent", "SkbTrackingEvent",
       "RawDevEvent", "RawNsEvent", "RawPacketEvent", "RawCtMetaEvent", "RawCtEvent",
       "BpfActionEvent" >>

\* the lengths of the payload builder i hands to build_raw_section
SectionSizes(i) == IF i <= 5 THEN {0, 98, 100} ELSE {98, 100}

\* RawSectionBuilder::build_raw of builder i with a payload of n bytes: one
\* section appended to out
build_raw(out, i, n, order) == build_raw_section(out, i, 1, Rep(i, n), order)

\* struct RawEvent: size: u16, data: [u8; BPF_RAW_EVENT_DATA_SIZE]
RawEventFields ==
    << Field("size", 2, 2), Field("data", BPF_RAW_EVENT_DATA_SIZE, 1) >>

\* as_u8_vec(&raw)
RawEvent_bytes(r, order) ==
    WriteAt(WriteAt(Rep(0, size_of(RawEventFields, 1)),
        offset_of(RawEventFields, "size"), u16_ne_bytes(r.size, order)),
        offset_of(RawEventFields, "data"), r.data)

\* variant of pad that leaves the event as long as the sections made it
pad_none(ev) == ev

\* event.append(&mut vec![0; BPF_RAW_EVENT_DATA_SIZE - event.len()])
pad(ev) == ev \o Rep(0, BPF_RAW_EVENT_DATA_SIZE - Len(ev))

\* build_raw_event:64-74, the event being no longer than the data of a RawEvent;
\* try_into gives the array only from a vector of its length, expect panics
\* otherwise
construct_raw_event(ev, order) ==
    IF Len(pad(ev)) # BPF_RAW_EVENT_DATA_SIZE
    THEN [kind |-> "panic", bytes |-> <<>>]
    ELSE [kind |-> "ok",
          bytes |-> RawEvent_bytes([size |-> as_u16(Len(ev)), data |-> pad(ev)], order)]

\* no filter is being compiled, build_raw_event is entered
InitEvent ==
    /\ filter = <<>>
    /\ byte_order \in {"little", "big"}
    /\ pc = "done"
    /\ fields = <<>> /\ op = MetaCmp_Eq /\ rval = <<>> /\ init_sym = <<>>
    /\ pos = 1
    /\ type = "void" /\ offt = 0 /\ ops = <<>>
    /\ stored_offset = 0 /\ stored_bf_size = 0 /\ mask = U64Zero
    /\ result = "none" /\ err = "" /\ prog = <<>>
    /\ walked = <<>>
    /\ event = <<>> /\ sections = <<>>
    /\ builder = 1 /\ raw_event = [kind |-> "none", bytes |-> <<>>]
    /\ NotPrinting
    /\ NotQuerying

idle == <<filter, byte_order, pc, parsed, pos, locals, result, err, prog, walked, printing,
          user>>

\* build_raw_event:52-61, one builder called and its section appended
BuildRaw ==
    /\ builder \in 1..Len(Builders)
    /\ raw_event.kind = "none"
    /\ \E n \in SectionSizes(builder) :
         /\ event' = build_raw(event, builder, n, byte_order)
         /\ sections' = Append(sections, [owner |-> builder, data_type |-> 1,
                                          data |-> Rep(builder, n)])
    /\ builder' = builder + 1
    /\ UNCHANGED <<idle, raw_event>>

\* build_raw_event:52-61, a builder returns an error and `?` hands it back
BuildRawFails ==
    /\ builder \in 1..Len(Builders)
    /\ raw_event.kind = "none"
    /\ raw_event' = [kind |-> "err", bytes |-> <<>>]
    /\ UNCHANGED <<idle, event, sections, builder>>

\* build_raw_event:64-74; the subtraction of line 65 underflows when the
\* sections are longer than the data: an overflow panic, or in a build
\* without overflow checks a vector too long to allocate
ConstructRawEvent ==
    /\ builder = Len(Builders) + 1
    /\ raw_event.kind = "none"
    /\ IF Len(event) > BPF_RAW_EVENT_DATA_SIZE
       THEN \E k \in {"panic", "alloc_failure"} :
               raw_event' = [kind |-> k, bytes |-> <<>>]
       ELSE raw_event' = construct_raw_event(event, byte_order)
    /\ UNCHANGED <<idle, event, sections, builder>>

NextEvent == BuildRaw \/ BuildRawFails \/ ConstructRawEvent

SpecEvent == InitEvent /\ [][NextEvent]_vars


\* ------------------------------------------------------------------------
\* C21: the raw event build_raw_event returns
\* ------------------------------------------------------------------------
\* a section as the framing writes it
SectionBytes(s) == <<s.owner, s.data_type>> \o HostU16(Len(s.data)) \o s.data
RECURSIVE ConcatSections(_)
ConcatSections(ss) ==
    IF Len(ss) = 0 THEN <<>> ELSE SectionBytes(ss[1]) \o ConcatSections(Tail(ss))
\* every builder was called and build_raw_event has ended
AllBuilt == builder = Len(Builders) + 1 /\ raw_event.kind # "none"

\* C21: when the ten sections together are no longer than
\* BPF_RAW_EVENT_DATA_SIZE, build_raw_event returns a 16-bit size and exactly
\* BPF_RAW_EVENT_DATA_SIZE bytes of data, the size is the length of the
\* sections, the data starts with the sections in the order of the builders
\* and is zero after them.
C21_RawEvent ==
    (AllBuilt /\ Len(ConcatSections(sections)) <= BPF_RAW_EVENT_DATA_SIZE) =>
        /\ raw_event.kind = "ok"
        /\ Len(raw_event.bytes) = 2 + BPF_RAW_EVENT_DATA_SIZE
        /\ ReadU16(SubSeq(raw_event.bytes, 1, 2)) = Len(ConcatSections(sections))
        /\ SubSeq(raw_event.bytes, 3, 2 + Len(ConcatSections(sections)))
             = ConcatSections(sections)
        /\ \A k \in (3 + Len(ConcatSections(sections)))..Len(raw_event.bytes) :
             raw_event.bytes[k] = 0
        /\ [i \in 1..Len(sections) |-> sections[i].owner]
             = [i \in 1..Len(Builders) |-> i]

\* an event with padding after the last section is returned
C21_PaddedEvent ==
    /\ AllBuilt /\ raw_event.kind = "ok"
    /\ Len(ConcatSections(sections)) = 40 + 5 * 98
    /\ raw_event.bytes[3 + Len(ConcatSections(sections))] = 0

\* sections longer than the data: nothing is returned
C21_TooLongPanics ==
    (AllBuilt /\ Len(ConcatSections(sections)) > BPF_RAW_EVENT_DATA_SIZE) =>
        raw_event.kind \in {"panic", "alloc_failure"}


\* ------------------------------------------------------------------------
\* Print::run (process/cli/print.rs)
\* ------------------------------------------------------------------------
\* the events a file holds at most
MaxEvents == 3
Events == {"a", "b"}

\* no filter is being compiled, no raw event is being built, run is entered
InitRun ==
    /\ filter = <<>>
    /\ byte_order \in {"little", "big"}
    /\ pc = "done"
    /\ fields = <<>> /\ op = MetaCmp_Eq /\ rval = <<>> /\ init_sym = <<>>
    /\ pos = 1
    /\ type = "void" /\ offt = 0 /\ ops = <<>>
    /\ stored_offset = 0 /\ stored_bf_size = 0 /\ mask = U64Zero
    /\ result = "none" /\ err = "" /\ prog = <<>>
    /\ walked = <<>>
    /\ event = <<>> /\ sections = <<>>
    /\ NotBuilding
    /\ NotQuerying
    /\ run_pc = "setup" /\ running = TRUE /\ current = "" /\ ret = "none"
    /\ read = <<>> /\ output = <<>> /\ read_after_signal = FALSE

others == <<filter, byte_order, pc, parsed, pos, locals, result, err, prog, walked, raw,
            user>>

\* return from run
Returns(r) == run_pc' = "done" /\ ret' = r

\* run:35-51: the Running instance, the signal handlers, the factory, the
\* output; `?` hands back the error of register_term_signals or of
\* FileEventsFactory::new
Setup ==
    /\ run_pc = "setup"
    /\ \/ \E e \in {"Err(register_term_signals)", "Err(FileEventsFactory::new)"} :
            Returns(e)
       \/ run_pc' = "loop" /\ UNCHANGED ret
    /\ UNCHANGED <<others, running, current, read, output, read_after_signal>>

\* the handler of SIGINT and SIGTERM, once registered, clears the flag
Signal ==
    /\ run_pc \in {"loop", "next_event", "process"}
    /\ running
    /\ running' = FALSE
    /\ UNCHANGED <<others, run_pc, current, ret, read, output, read_after_signal>>

\* variant of loop_condition that does not look at the flag
loop_condition_true(r) == TRUE

\* run:54, while run.running()
loop_condition(r) == r

\* run:54-55 and 61-62: the loop condition, then the call of next_event or
\* the end of the loop and Ok(())
LoopCheck ==
    /\ run_pc = "loop"
    /\ IF loop_condition(running)
       THEN /\ run_pc' = "next_event"
            /\ read_after_signal' = (read_after_signal \/ ~running)
            /\ UNCHANGED ret
       ELSE Returns("Ok") /\ UNCHANGED read_after_signal
    /\ UNCHANGED <<others, running, current, read, output>>

\* variant of on_timeout that leaves the loop
on_timeout_break == "done"

\* run:58, Timeout => continue: back to the loop condition
on_timeout == "loop"

\* run:55-59: next_event returns within its timeout with an event, Eof,
\* Timeout or an error
NextEventReturns ==
    /\ run_pc = "next_event"
    /\ \/ /\ Len(read) < MaxEvents
          /\ \E e \in Events :
               /\ current' = e
               /\ read' = Append(read, e)
               /\ run_pc' = "process"
               /\ UNCHANGED ret
       \/ current' = "Eof" /\ Returns("Ok") /\ UNCHANGED read
       \/ current' = "Timeout" /\ run_pc' = on_timeout /\ UNCHANGED <<read, ret>>
       \/ current' = "Err" /\ Returns("Err(next_event)") /\ UNCHANGED read
    /\ UNCHANGED <<others, running, output, read_after_signal>>

\* run:56: output.process_one(&event)?
ProcessOne ==
    /\ run_pc = "process"
    /\ output' = Append(output, current)
    /\ \/ run_pc' = "loop" /\ UNCHANGED ret
       \/ Returns("Err(process_one)")
    /\ UNCHANGED <<others, running, current, read, read_after_signal>>

NextRun == Setup \/ Signal \/ LoopCheck \/ NextEventReturns \/ ProcessOne

SpecRun == InitRun /\ [][NextRun]_vars

\* run is scheduled, and next_event and process_one return
SpecRunFair ==
    /\ SpecRun
    /\ WF_vars(LoopCheck) /\ WF_vars(NextEventReturns) /\ WF_vars(ProcessOne)


\* ------------------------------------------------------------------------
\* C22: the loop of Print::run
\* ------------------------------------------------------------------------
IsPrefix(a, b) == Len(a) <= Len(b) /\ SubSeq(b, 1, Len(a)) = a
\* the step is the return of next_event
NextEventStep == run_pc = "next_event" /\ run_pc' # "next_event"

\* events are handed to the output once each and in the order read: the
\* output is the events read, but for the one in hand
C22_OutputFollowsRead ==
    IF run_pc = "process" THEN read = Append(output, current) ELSE output = read

\* C22: every event the factory returns is handed to the output once and in
\* the order read; Timeout outputs nothing and the loop goes on; Eof ends the
\* loop with Ok and nothing is read or output afterwards; an error of
\* next_event or process_one ends run with that error.
C22_RunLoop ==
    /\ []C22_OutputFollowsRead
    /\ [][NextEventStep /\ current' = "Timeout" =>
             /\ run_pc' = "loop" /\ ret' = "none"
             /\ output' = output /\ read' = read]_vars
    /\ [][NextEventStep /\ current' = "Eof" =>
             /\ run_pc' = "done" /\ ret' = "Ok"
             /\ output' = output /\ read' = read]_vars
    /\ [][NextEventStep /\ current' = "Err" =>
             run_pc' = "done" /\ ret' = "Err(next_event)"]_vars
    /\ [][NextEventStep /\ current' \in Events =>
             run_pc' = "process" /\ read' = Append(read, current')]_vars
    /\ [][run_pc = "process" /\ run_pc' # "process" =>
             /\ output' = Append(output, current)
             /\ \/ run_pc' = "loop" /\ ret' = "none"
                \/ run_pc' = "done" /\ ret' = "Err(process_one)"]_vars
    /\ [][run_pc = "done" => UNCHANGED <<read, output, ret, run_pc>>]_vars

\* Eof after three events, all of them output
C22_AllOutputAtEof ==
    /\ run_pc = "done" /\ ret = "Ok" /\ current = "Eof" /\ running
    /\ output = <<"a", "b", "a">>


\* ------------------------------------------------------------------------
\* C23: Print::run after a termination signal
\* ------------------------------------------------------------------------
\* once the flag is cleared no next_event call begins, the event of the
\* call in progress is handed to process_one, and the loop condition ends run
C23_NoReadAfterSignal ==
    /\ [](~read_after_signal)
    /\ [][~running /\ run_pc = "loop" =>
             run_pc' = "done" /\ ret' = "Ok" /\ read' = read /\ output' = output]_vars
    /\ [][~running /\ read' # read =>
             run_pc = "next_event" /\ run_pc' = "process"]_vars
    /\ [](~running /\ run_pc = "done" /\ ret = "Ok" => output = read)

\* with next_event and process_one returning, run ends after a signal
C23_TerminatesAfterSignal == ~running ~> run_pc = "done"

RECURSIVE U64Bytes(_, _)
U64Bytes(n, k) == IF k = 0 THEN <<>> ELSE <<n % 256>> \o U64Bytes(n \div 256, k - 1)
U64Of(n) == U64Bytes(n, 8)
U64Max == Rep(255, 8)

\* bytes i..8 of a + b + carry, followed by the carry out of byte 8
RECURSIVE AddFrom(_, _, _, _)
AddFrom(a, b, carry, i) ==
    IF i > 8 THEN <<carry>>
    ELSE <<(a[i] + b[i] + carry) % 256>>
         \o AddFrom(a, b, (a[i] + b[i] + carry) \div 256, i + 1)

\* bytes i..8 of a - b - borrow, followed by the borrow out of byte 8
RECURSIVE SubFrom(_, _, _, _)
SubFrom(a, b, borrow, i) ==
    IF i > 8 THEN <<borrow>>
    ELSE <<(a[i] - b[i] - borrow + 256) % 256>>
         \o SubFrom(a, b, IF a[i] - b[i] - borrow < 0 THEN 1 ELSE 0, i + 1)

\* a + b and a - b on u64: the wrapped value and whether it overflowed
u64_add(a, b) ==
    With(AddFrom(a, b, 0, 1), LAMBDA r : [val |-> SubSeq(r, 1, 8), overflow |-> r[9] = 1])
u64_sub(a, b) ==
    With(SubFrom(a, b, 0, 1), LAMBDA r : [val |-> SubSeq(r, 1, 8), overflow |-> r[9] = 1])

\* the outcome of an arithmetic operator: a panic in a build with overflow
\* checks, the wrapped value in a build without
Arith(r, checks) ==
    IF r.overflow /\ checks THEN [panic |-> TRUE, val |-> <<>>]
    ELSE [panic |-> FALSE, val |-> r.val]
Panicked == [panic |-> TRUE, val |-> <<>>]
Value(v) == [panic |-> FALSE, val |-> v]
\* the rest of a computation that has not panicked
AndThen(r, F(_)) == IF r.panic THEN r ELSE F(r.val)

\* str::split_once("::"): the text before and after the first "::"
RECURSIVE SplitOnceFrom(_, _)
SplitOnceFrom(t, i) ==
    IF i + 1 > Len(t) THEN None
    ELSE IF t[i] = ":" /\ t[i + 1] = ":"
    THEN Some(<<SubSeq(t, 1, i - 1), SubSeq(t, i + 2, Len(t))>>)
    ELSE SplitOnceFrom(t, i + 1)
split_once(t) == SplitOnceFrom(t, 1)

\* Iterator::find on the notes: the first note from index i on that P holds of
RECURSIVE FindNote(_, _, _)
FindNote(notes, P(_), i) ==
    IF i > Len(notes) THEN None
    ELSE IF P(notes[i]) THEN Some(notes[i])
    ELSE FindNote(notes, P, i + 1)

\* variant of UsdtInfo_get_note that matches on the name alone
UsdtInfo_get_note_by_name(info, t) ==
    With(split_once(t), LAMBDA s :
        IF ~IsSome(s) THEN Err("not a valid USDT target")
        ELSE Ok(FindNote(info.notes, LAMBDA note : note.name = Unwrap(s)[2], 1)))

\* UsdtInfo::get_note
UsdtInfo_get_note(info, t) ==
    With(split_once(t), LAMBDA s :
        IF ~IsSome(s) THEN Err("not a valid USDT target")
        ELSE Ok(FindNote(info.notes,
                         LAMBDA note : /\ note.provider = Unwrap(s)[1]
                                       /\ note.name = Unwrap(s)[2], 1)))

\* Binary::get_note
Binary_get_note(bin, t) ==
    IF IsSome(bin.usdt_info) THEN UsdtInfo_get_note(Unwrap(bin.usdt_info), t)
    ELSE Ok(None)

\* Process::get_note, the loop over the libraries from index i on
RECURSIVE Process_get_note_libs(_, _, _)
Process_get_note_libs(libs, t, i) ==
    IF i > Len(libs) THEN Ok(None)
    ELSE Then(Binary_get_note(libs[i], t), LAMBDA o :
            IF IsSome(o) THEN Ok(Some([path |-> libs[i].path, note |-> Unwrap(o)]))
            ELSE Process_get_note_libs(libs, t, i + 1))

\* Process::get_note
Process_get_note(p, t) ==
    Then(Binary_get_note(p.exec, t), LAMBDA o :
        IF IsSome(o) THEN Ok(Some([path |-> p.exec.path, note |-> Unwrap(o)]))
        ELSE Process_get_note_libs(p.libs, t, 1))

\* Process::is_usdt
Process_is_usdt(p, t) == Then(Process_get_note(p, t), LAMBDA o : Ok(IsSome(o)))

\* note.addr + self.base_addr - note.base_addr
link_addr(note, base_addr, checks) ==
    AndThen(Arith(u64_add(note.addr, base_addr), checks), LAMBDA sum :
        Arith(u64_sub(sum, note.base_addr), checks))

\* UsdtInfo::get_note_from_offset: find evaluates the closure note by note
RECURSIVE UsdtInfo_get_note_from_offset(_, _, _, _)
UsdtInfo_get_note_from_offset(info, addr, checks, i) ==
    IF i > Len(info.notes) THEN Value(None)
    ELSE AndThen(link_addr(info.notes[i], info.base_addr, checks), LAMBDA l :
            IF l = addr THEN Value(Some(info.notes[i]))
            ELSE UsdtInfo_get_note_from_offset(info, addr, checks, i + 1))

\* Binary::get_note_from_offset
Binary_get_note_from_offset(bin, addr, checks) ==
    IF IsSome(bin.usdt_info)
    THEN UsdtInfo_get_note_from_offset(Unwrap(bin.usdt_info), addr, checks, 1)
    ELSE Value(None)

\* Process::get_note_from_symbol over the executable and then the libraries
\* (bins), from index i on
RECURSIVE get_note_from_symbol_loop(_, _, _, _)
get_note_from_symbol_loop(bins, sym, checks, i) ==
    IF i > Len(bins) THEN Value(None)
    ELSE IF ~IsSome(bins[i].addr)
    THEN get_note_from_symbol_loop(bins, sym, checks, i + 1)
    ELSE AndThen(Arith(u64_sub(sym, Unwrap(bins[i].addr)), checks), LAMBDA off :
           AndThen(Binary_get_note_from_offset(bins[i], off, checks), LAMBDA o :
             IF IsSome(o) THEN Value(o)
             ELSE get_note_from_symbol_loop(bins, sym, checks, i + 1)))

\* Process::get_note_from_symbol
Process_get_note_from_symbol(p, sym, checks) ==
    get_note_from_symbol_loop(<<p.exec>> \o p.libs, sym, checks, 1)


\* the binaries and processes queried
UsdtNote(provider, name, addr, base_addr) ==
    [provider |-> provider, name |-> name, addr |-> addr, base_addr |-> base_addr]
UsdtInfo(base_addr, notes) == [base_addr |-> base_addr, notes |-> notes]
Binary(path, usdt_info, addr) == [path |-> path, usdt_info |-> usdt_info, addr |-> addr]

TestProbe == UsdtNote(<<"test_provider">>, <<"test_function">>, U64Of(256), U64Of(1280))
AppInfo ==
    UsdtInfo(U64Of(1280),
             <<TestProbe, UsdtNote(<<"foo">>, <<"baz">>, U64Of(512), U64Of(1280))>>)
\* UsdtInfo::new failed: no USDT information
B_script == Binary("/bin/script", None, Some(U64Of(4096)))
\* no .stapsdt.base section: UsdtInfo::default()
B_plain == Binary("/lib/ld.so", Some(UsdtInfo(U64Zero, <<>>)), Some(U64Of(8192)))
B_app == Binary("/bin/app", Some(AppInfo), Some(U64Of(4096)))
\* Process::all: the executable is not loaded
B_app_unloaded == Binary("/bin/app", Some(AppInfo), None)
\* a prelinked library: its base section moved from 1280 to 1024
B_libfoo ==
    Binary("/lib/libfoo.so",
           Some(UsdtInfo(U64Of(1024),
                         <<UsdtNote(<<"foo">>, <<"bar">>, U64Of(768), U64Of(1280))>>)),
           Some(U64Of(12288)))
\* notes whose addresses are at the ends of the address space
B_high ==
    Binary("/lib/libhigh.so",
           Some(UsdtInfo(U64Of(1), <<UsdtNote(<<"hi">>, <<"top">>, U64Max, U64Of(1))>>)),
           Some(U64Of(16384)))
B_low ==
    Binary("/lib/liblow.so",
           Some(UsdtInfo(U64Zero, <<UsdtNote(<<"lo">>, <<"bottom">>, U64Zero, U64Of(16))>>)),
           Some(U64Of(20480)))

Execs == {B_script, B_plain, B_app, B_app_unloaded}
Libs == {B_script, B_plain, B_libfoo, B_high, B_low}
Processes ==
    { [exec |-> e, libs |-> l] :
        e \in Execs,
        l \in {<<>>} \cup { <<a>> : a \in Libs } \cup { <<a, b>> : a, b \in Libs } }

Targets ==
    { <<"test_provider", ":", ":", "test_function">>, <<"foo", ":", ":", "bar">>,
      <<"foo", ":", ":", "baz">>, <<"func", ":", ":", "bar">>,
      <<"wrong_format">>, <<"foo", ":", "bar">>, <<>>, <<":", ":">>,
      <<"test_provider", ":", ":", "test_function", ":", ":", "x">> }

Symbols ==
    { U64Zero, U64Of(256), U64Of(4096), U64Of(4096 + 256), U64Of(12288 + 512), U64Max }

\* a Process exists and one of its queries is about to be made
InitProc ==
    /\ filter = <<>>
    /\ byte_order = "little"
    /\ pc = "done"
    /\ fields = <<>> /\ op = MetaCmp_Eq /\ rval = <<>> /\ init_sym = <<>>
    /\ pos = 1
    /\ type = "void" /\ offt = 0 /\ ops = <<>>
    /\ stored_offset = 0 /\ stored_bf_size = 0 /\ mask = U64Zero
    /\ result = "none" /\ err = "" /\ prog = <<>>
    /\ walked = <<>>
    /\ event = <<>> /\ sections = <<>>
    /\ NotBuilding
    /\ NotPrinting
    /\ process \in Processes
    /\ target \in Targets
    /\ symbol \in Symbols
    /\ overflow_checks \in BOOLEAN
    /\ proc_ret = [op |-> "none"]

rest == <<filter, byte_order, pc, parsed, pos, locals, result, err, prog, walked, raw,
          printing>>

\* p.is_usdt(target)
IsUsdt ==
    /\ process # <<>>
    /\ proc_ret.op = "none"
    /\ proc_ret' = [op |-> "is_usdt", ret |-> Process_is_usdt(process, target)]
    /\ UNCHANGED <<rest, process, target, symbol, overflow_checks>>

\* p.get_note_from_symbol(symbol)
GetNoteFromSymbol ==
    /\ process # <<>>
    /\ proc_ret.op = "none"
    /\ proc_ret' = [op |-> "get_note_from_symbol",
                    ret |-> Process_get_note_from_symbol(process, symbol,
                                                         overflow_checks)]
    /\ UNCHANGED <<rest, process, target, symbol, overflow_checks>>

NextProc == IsUsdt \/ GetNoteFromSymbol

SpecProc == InitProc /\ [][NextProc]_vars


\* ------------------------------------------------------------------------
\* C24: Process::is_usdt
\* ------------------------------------------------------------------------
\* the target is written provider::name
WellFormedTarget == \E i \in 1..(Len(target) - 1) : target[i] = ":" /\ target[i + 1] = ":"
Binaries == <<process.exec>> \o process.libs
\* some binary of the process has a note the target names
HasTargetNote ==
    \E i \in 1..Len(Binaries) :
        /\ IsSome(Binaries[i].usdt_info)
        /\ \E k \in 1..Len(Unwrap(Binaries[i].usdt_info).notes) :
              With(Unwrap(Binaries[i].usdt_info).notes[k], LAMBDA note :
                  note.provider \o <<":", ":">> \o note.name = target)
IsUsdtCalled == proc_ret.op = "is_usdt"

\* C24: is_usdt returns an error for every target that is not written
\* provider::name, whatever USDT information the binaries hold, and for a
\* target written so Ok(true) iff the executable or a library has a note of
\* that provider and name.
C24_IsUsdt ==
    IsUsdtCalled =>
        IF WellFormedTarget
        THEN proc_ret.ret = Ok(HasTargetNote)
        ELSE ~proc_ret.ret.ok

\* the part on targets written provider::name
C24_WellFormedTargets ==
    (IsUsdtCalled /\ WellFormedTarget) => proc_ret.ret = Ok(HasTargetNote)

\* a target not written provider::name is an error as soon as one binary has
\* USDT information
C24_ErrorWithUsdtInfo ==
    (IsUsdtCalled /\ ~WellFormedTarget
        /\ \E i \in 1..Len(Binaries) : IsSome(Binaries[i].usdt_info))
    => ~proc_ret.ret.ok


\* ------------------------------------------------------------------------
\* C30: Process::get_note_from_symbol
\* ------------------------------------------------------------------------
\* a + b on numbers of any length (little-endian bytes), nothing dropped
RECURSIVE WideAddFrom(_, _, _, _)
WideAddFrom(a, b, carry, i) ==
    IF i > Len(a) /\ i > Len(b) THEN <<carry>>
    ELSE With((IF i <= Len(a) THEN a[i] ELSE 0) + (IF i <= Len(b) THEN b[i] ELSE 0) + carry,
              LAMBDA t : <<t % 256>> \o WideAddFrom(a, b, t \div 256, i + 1))
WideAdd(a, b) == WideAddFrom(a, b, 0, 1)
\* the same number, whatever the count of high zero bytes
SameNumber(a, b) ==
    \A i \in 1..(Len(a) + Len(b)) :
        (IF i <= Len(a) THEN a[i] ELSE 0) = (IF i <= Len(b) THEN b[i] ELSE 0)

\* note.addr + base_addr - note.base_addr = sym - load, over the integers
NoteAt(note, info, load, sym) ==
    SameNumber(WideAdd(WideAdd(note.addr, info.base_addr), load),
               WideAdd(sym, note.base_addr))
\* the notes of binary i at the symbol, in order
MatchesOf(i) ==
    IF IsSome(Binaries[i].addr) /\ IsSome(Binaries[i].usdt_info)
    THEN SelectSeq(Unwrap(Binaries[i].usdt_info).notes,
                   LAMBDA note : NoteAt(note, Unwrap(Binaries[i].usdt_info),
                                        Unwrap(Binaries[i].addr), symbol))
    ELSE <<>>
RECURSIVE FirstMatchFrom(_)
FirstMatchFrom(i) ==
    IF i > Len(Binaries) THEN None
    ELSE IF Len(MatchesOf(i)) > 0 THEN Some(MatchesOf(i)[1])
    ELSE FirstMatchFrom(i + 1)
SymbolCalled == proc_ret.op = "get_note_from_symbol"

\* C30: get_note_from_symbol returns the note of the first binary
\* (executable, then libraries in order) holding one with
\* note.addr + base_addr - note.base_addr = symbol - load address, and None
\* when there is none; the arithmetic neither underflows nor overflows.
C30_FirstMatchOrNone ==
    SymbolCalled =>
        /\ ~proc_ret.ret.panic
        /\ proc_ret.ret.val = FirstMatchFrom(1)

\* a symbol below the load address of a binary is not a panic
C30_NoPanic == SymbolCalled => ~proc_ret.ret.panic

\* where no subtraction or addition leaves the range of u64 the result is
\* the first match
C30_MatchFound ==
    /\ SymbolCalled /\ ~proc_ret.ret.panic /\ IsSome(proc_ret.ret.val)
    /\ proc_ret.ret.val = FirstMatchFrom(1)


\* ------------------------------------------------------------------------
\* C25: the offsets of the Loads
\* ------------------------------------------------------------------------
\* the bit offsets at which a record holds a member of the name, directly or
\* inside its anonymous records, the offsets of the containers added
RECURSIVE MemberOffsets(_, _)
MemberOffsets(ty, name) ==
    IF BtfTypes[ty].kind \notin {"Struct", "Union"} THEN {}
    ELSE UNION { (IF BtfTypes[ty].members[i].name = name
                  THEN {BtfTypes[ty].members[i].bit_offset} ELSE {})
                 \cup (IF BtfTypes[ty].members[i].name = <<>>
                       THEN { BtfTypes[ty].members[i].bit_offset + o :
                                o \in MemberOffsets(BtfTypes[ty].members[i].type, name) }
                       ELSE {})
               : i \in 1..Len(BtfTypes[ty].members) }

\* the sums of the bit offsets of the members traversed up to step k since
\* the last pointer dereference, or since the root
RECURSIVE RunningSums(_)
RunningSums(k) ==
    { b + o : b \in (IF k = 1 \/ walked[k - 1].ind = 1 THEN {0} ELSE RunningSums(k - 1)),
              o \in MemberOffsets(walked[k].from, fields[k].member) }

\* the steps that emit a Load: every pointer dereference, then the last
StepsOfLoads ==
    SelectSeq([k \in 1..(Len(walked) - 1) |-> k], LAMBDA k : walked[k].ind = 1)
        \o <<Len(walked)>>

\* C25: the offset of every Load is the sum of the bit offsets of the
\* members traversed since the last pointer dereference (named records
\* stepped through, anonymous records recursed into, the member itself), in
\* bytes, or in bits for a bitfield; after a pointer Load the sum restarts.
C25_LoadOffsets ==
    Accepted =>
       /\ Len(prog) = 1 + Len(StepsOfLoads)
       /\ \A j \in 1..Len(StepsOfLoads) :
            \E s \in RunningSums(StepsOfLoads[j]) :
               prog[j + 1].offt = IF prog[j + 1].bf_size > 0 THEN s ELSE s \div 8

\* a named record stepped through and anonymous records recursed into:
\* sk_buff.headers.mark at (1088 + 256) / 8
C25_ThroughInnerRecord ==
    /\ Accepted /\ Len(walked) = 2 /\ walked[1].ind = 0
    /\ fields[2].member = <<"mark">>
    /\ Terminal(prog).offt = 168

\* the sum restarts after a pointer: sk_buff.dev.mtu at 384 / 8
C25_RestartAfterPointer ==
    /\ Accepted /\ Len(walked) = 2 /\ walked[1].ind = 1
    /\ fields[2].member = <<"mtu">>
    /\ Terminal(prog).offt = 48


\* ------------------------------------------------------------------------
\* C26: field not found
\* ------------------------------------------------------------------------
\* step k looked for a member the record has, directly or in its anonymous
\* records
MemberExists(k) == MemberOffsets(walked[k].from, fields[k].member) # {}
NotFound(k) == walked[k].err = "field not found"

\* C26: a step reports field not found iff the current record has no member
\* of the name, directly or in its anonymous Struct/Union members; members
\* declared before it never hide it.
C26_NotFoundIffAbsent ==
    \A k \in 1..Len(walked) : NotFound(k) <=> ~MemberExists(k)

\* a member that is reported as found exists
C26_FoundOnlyIfPresent ==
    \A k \in 1..Len(walked) : IsSome(walked[k].found) => MemberExists(k)

\* an anonymous record that does not hold the name does not hide a later
\* member: sk_buff.rbnode is found after the anonymous struct of next and prev
C26_FoundAfterAnonymousRecord ==
    /\ Len(walked) >= 1 /\ fields[1].member = <<"rbnode">>
    /\ IsSome(walked[1].found)



\* ------------------------------------------------------------------------
\* C27: the offset overflow of a Load
\* ------------------------------------------------------------------------
\* from_string was rejected by the conversion of an integer at step k
\* (emit_load_ptr), or after the last step by the conversion of the offset
\* (emit_load: the Load itself was built and the bitfield size fits)
RejectedAtPointer(k) ==
    /\ pc = "done" /\ result = "err" /\ err = "TryFromIntError"
    /\ Len(walked) = k /\ walked[k].err = "TryFromIntError"
RejectedAtTerminal ==
    /\ pc = "done" /\ result = "err" /\ err = "TryFromIntError"
    /\ Len(walked) = Len(fields) /\ walked[Len(walked)].err = ""
    /\ emit_load_loop(NewLoad, <<type>> \o type_iter(type), 1).ok
    /\ stored_bf_size <= U8Max

\* the byte offset of the member of step k does not fit in 16 bits
ByteOffsetOverflows(k) == \A s \in RunningSums(k) : s \div 8 > U16Max

\* C27: for a member that is not a bitfield, the Load of a pointer and the
\* terminal Load alike are rejected for offset overflow only when the byte
\* offset (bit offset / 8) does not fit in 16 bits.
C27_RejectedOnlyIfByteOffsetOverflows ==
    /\ \A k \in 1..Len(walked) : RejectedAtPointer(k) => ByteOffsetOverflows(k)
    /\ (RejectedAtTerminal /\ stored_bf_size = 0) => ByteOffsetOverflows(Len(walked))

\* the part that holds: a pointer Load is rejected only when the byte offset
\* does not fit
C27_PointerRejectedOnlyIfOverflows ==
    \A k \in 1..Len(walked) : RejectedAtPointer(k) => ByteOffsetOverflows(k)

\* a pointer Load is emitted at a byte offset whose bit offset does not fit
\* in 16 bits: sk_buff.dev.qdisc.flags
C27_PointerPastBitLimit ==
    /\ Accepted /\ Len(prog) = 4
    /\ prog[3].type = PTR_BIT /\ prog[3].offt = (HighBits + 64) \div 8

\* a pointer Load is rejected: sk_buff.dev.qdisc_sleeping.flags
C27_PointerRejected == \E k \in 1..Len(walked) : RejectedAtPointer(k)



\* ------------------------------------------------------------------------
\* C28: casts and the transparent wrappers of a member's type
\* ------------------------------------------------------------------------
\* the type a chain of typedefs and qualifiers stands for
RECURSIVE Unwrapped(_)
Unwrapped(ty) ==
    IF BtfTypes[ty].kind \in Transparent THEN Unwrapped(BtfTypes[ty].type) ELSE ty

IsPointerLike(ty) ==
    \/ BtfTypes[ty].kind = "Ptr"
    \/ BtfTypes[ty].kind = "Int" /\ BtfTypes[ty].size = PtrSize

\* step k is an intermediate node with a cast whose member was found
CastStep(k) ==
    /\ k < Len(fields) /\ IsSome(fields[k].tgt_type) /\ IsSome(walked[k].found)

\* the type of the member of step k, as declared
DeclaredType(k) == walked[k].found[1].ty

\* C28: with a cast on an intermediate node the wrappers around the
\* member's type are transparent: a member whose type is, under typedefs
\* and qualifiers, a pointer or a pointer-sized integer counts one
\* indirection, as a member declared directly with that type does.
C28_WrappersTransparentUnderCast ==
    \A k \in 1..Len(walked) :
        (CastStep(k) /\ IsPointerLike(Unwrapped(DeclaredType(k)))) => walked[k].ind = 1

\* the part that holds: a member declared directly as a pointer or as a
\* pointer-sized integer counts one indirection under a cast
C28_DirectCountsOne ==
    \A k \in 1..Len(walked) :
        (CastStep(k) /\ IsPointerLike(DeclaredType(k))) => walked[k].ind = 1

\* a cast on a member declared directly as a pointer-sized integer is
\* accepted: sk_buff._nfct:~0x7:nf_conn.mark
C28_DirectCastAccepted ==
    /\ Accepted /\ Len(walked) = 2 /\ CastStep(1)
    /\ BtfTypes[DeclaredType(1)].kind = "Int" /\ walked[1].ind = 1

\* a cast on a member declared as a typedef of a pointer was requested
C28_TypedefCastRequested ==
    /\ pc = "done" /\ Len(walked) >= 1 /\ CastStep(1)
    /\ BtfTypes[DeclaredType(1)].kind = "Typedef"
    /\ BtfTypes[Unwrapped(DeclaredType(1))].kind = "Ptr"



\* ------------------------------------------------------------------------
\* C29: masks and arrays
\* ------------------------------------------------------------------------
\* C29: no accepted program has a terminal Load that is an array
\* (nmemb > 0) and carries a mask, whatever the sign of the elements.
C29_NoMaskOnArray ==
    Accepted => ~(is_arr(Terminal(prog)) /\ ~U64IsZero(Terminal(prog).mask))

\* the part that holds: no accepted program has a terminal Load that is an
\* array of signed elements and carries a mask (sk_buff.dev.name:~0x00)
C29_NoMaskOnSignedArray ==
    Accepted =>
        ~(is_arr(Terminal(prog)) /\ is_signed(Terminal(prog))
            /\ ~U64IsZero(Terminal(prog).mask))

\* a mask on an array of signed chars was requested and rejected
C29_MaskOnStringRejected ==
    /\ pc = "done" /\ result = "err" /\ Len(walked) = 2
    /\ fields[2].member = <<"name">> /\ ~U64IsZero(fields[2].mask)
    /\ err = "mask is only supported for pointers and unsigned numeric members"

====
